---- MODULE Spec2Model ----
(***************************************************************************)
(* The synchronous RingoJS Redis client of src/lib/ngv/redis.js (the       *)
(* variant that starts at line 428): connection life cycle, command        *)
(* senders with their reconnect-and-retry, and the reply decoder, run      *)
(* against a Redis server that speaks the wire protocol.                   *)
(*                                                                         *)
(* A byte is a one-character string; text and streams are sequences of     *)
(* bytes.  A JavaScript value is a record [t, n, s, a]: t is its type tag, *)
(* n its number, s its text and a its array elements.                      *)
(***************************************************************************)
EXTENDS Integers, Sequences, FiniteSets, TLC

\* ------------------------------------------------------------------ bounds
\* Calls the caller makes in one behaviour.
MaxCalls == 3
\* Sockets the client opens in one behaviour.
MaxSockets == 3

\* ------------------------------------------------------------------- bytes
CR == "\r"
LF == "\n"
CRLF == <<CR, LF>>
\* The zero byte a Java byte[] holds where read(buf) stored nothing.
NUL == "NUL"

\* The character U+00A3, the two bytes UTF-8 encodes it to, and the character
\* U+FFFD a decoder puts for bytes that are no UTF-8.
Pound == "U+00A3"
ByteC2 == "0xC2"
ByteA3 == "0xA3"
Replacement == "U+FFFD"

\* The bytes an OutputStreamWriter with charset UTF-8 writes for a text.
RECURSIVE Utf8Bytes(_)
Utf8Bytes(text) ==
    IF text = <<>> THEN <<>>
    ELSE (IF Head(text) = Pound THEN <<ByteC2, ByteA3>> ELSE <<Head(text)>>)
         \o Utf8Bytes(Tail(text))

\* new java.lang.String(buf, UTF-8): the text of the bytes.
RECURSIVE Utf8Text(_)
Utf8Text(bytes) ==
    IF bytes = <<>> THEN <<>>
    ELSE IF Len(bytes) >= 2 /\ bytes[1] = ByteC2 /\ bytes[2] = ByteA3
    THEN <<Pound>> \o Utf8Text(Tail(Tail(bytes)))
    ELSE IF Head(bytes) \in {ByteC2, ByteA3}
    THEN <<Replacement>> \o Utf8Text(Tail(bytes))
    ELSE <<Head(bytes)>> \o Utf8Text(Tail(bytes))

Digits == <<"0", "1", "2", "3", "4", "5", "6", "7", "8", "9">>

IsDigit(c) == \E i \in 1..10 : Digits[i] = c

DigitVal(c) == (CHOOSE i \in 1..10 : Digits[i] = c) - 1

IsSpace(c) == c \in {" ", "\t", CR, LF}

Min(a, b) == IF a < b THEN a ELSE b

Take(s, n) == SubSeq(s, 1, Min(n, Len(s)))

Drop(s, n) == SubSeq(s, Min(n, Len(s)) + 1, Len(s))

RECURSIVE Concat(_)
Concat(ss) == IF ss = <<>> THEN <<>> ELSE Head(ss) \o Concat(Tail(ss))

\* Number to text, as JavaScript's string concatenation ('*' + n) renders it.
RECURSIVE NumToStr(_)
NumToStr(n) ==
    IF n < 0 THEN <<"-">> \o NumToStr(-n)
    ELSE IF n < 10 THEN <<Digits[n + 1]>>
    ELSE NumToStr(n \div 10) \o <<Digits[(n % 10) + 1]>>

\* --------------------------------------------------------- JavaScript values
VNull == [t |-> "null", n |-> 0, s |-> <<>>, a |-> <<>>]
VUndef == [t |-> "undefined", n |-> 0, s |-> <<>>, a |-> <<>>]
VNaN == [t |-> "NaN", n |-> 0, s |-> <<>>, a |-> <<>>]
VTrue == [t |-> "bool", n |-> 1, s |-> <<>>, a |-> <<>>]
VFalse == [t |-> "bool", n |-> 0, s |-> <<>>, a |-> <<>>]
VInt(k) == [t |-> "int", n |-> k, s |-> <<>>, a |-> <<>>]
VStr(x) == [t |-> "str", n |-> 0, s |-> x, a |-> <<>>]
VArr(x) == [t |-> "array", n |-> 0, s |-> <<>>, a |-> x]
\* The number k + 0.frac, frac being digits that do not end in "0".
VFloat(k, frac) == [t |-> "float", n |-> k, s |-> frac, a |-> <<>>]
\* An object is the sequence of its properties, each a name with a value.
VProp(name, v) == [t |-> "prop", n |-> 0, s |-> name, a |-> <<v>>]
VObj(props) == [t |-> "object", n |-> 0, s |-> <<>>, a |-> props]
\* What a function leaves by throwing.
VThrown == [t |-> "thrown", n |-> 0, s |-> <<>>, a |-> <<>>]

\* parseInt(str, 10): leading white space, an optional sign, then the longest
\* run of digits; NaN when there is no digit.  parseInt(undefined) is NaN.
RECURSIVE SkipSpace(_)
SkipSpace(s) == IF s # <<>> /\ IsSpace(Head(s)) THEN SkipSpace(Tail(s)) ELSE s

RECURSIVE DigitRun(_, _)
DigitRun(s, acc) ==
    IF s # <<>> /\ IsDigit(Head(s))
    THEN DigitRun(Tail(s), acc * 10 + DigitVal(Head(s)))
    ELSE acc

ParseInt(v) ==
    LET unsigned(s1, sign) ==
            IF s1 = <<>> \/ ~IsDigit(Head(s1)) THEN VNaN
            ELSE VInt(sign * DigitRun(s1, 0))
        signed(s0) ==
            IF s0 # <<>> /\ Head(s0) = "-" THEN unsigned(Tail(s0), -1)
            ELSE IF s0 # <<>> /\ Head(s0) = "+" THEN unsigned(Tail(s0), 1)
            ELSE unsigned(s0, 1)
    IN IF v.t # "str" THEN VNaN ELSE signed(SkipSpace(v.s))

\* ------------------------------------------------------------ command text
\* Command names and the key and value the caller uses.
GET == <<"g", "e", "t">>
SET == <<"s", "e", "t">>
INCR == <<"i", "n", "c", "r">>
SETNX == <<"s", "e", "t", "n", "x">>
SADD == <<"s", "a", "d", "d">>
SISMEMBER == <<"s", "i", "s", "m", "e", "m", "b", "e", "r">>
ZADD == <<"z", "a", "d", "d">>
ZREM == <<"z", "r", "e", "m">>
INFO == <<"i", "n", "f", "o">>
LASTSAVE == <<"l", "a", "s", "t", "s", "a", "v", "e">>
PING == <<"p", "i", "n", "g">>
SELECT == <<"s", "e", "l", "e", "c", "t">>
SORT == <<"s", "o", "r", "t">>
QUIT == <<"q", "u", "i", "t">>
Key == <<"k">>
Bar == <<"b", "a", "r">>
\* A binary-safe value whose tail reads like a status reply.
Tail5 == <<"x", "y", "z", "+", "O", "K", CR, LF>>
FOO == <<"f", "o", "o">>
\* Values with a two-byte character and with a line end in them.
Quid == <<"b", Pound, "a">>
TwoLines == <<"a", CR, LF, "b">>

\* var commands = {...}: the names a sender is created for (those this model
\* has a use for).
commands == {GET, SET, INCR, SETNX, SADD, SISMEMBER, ZADD, ZREM, INFO, LASTSAVE, PING}

\* (new java.lang.String(arg)).getBytes('UTF-8').length
Utf8Length(arg) == Len(Utf8Bytes(arg))

\* The text of an argument, which is a string or a number: what
\* new java.lang.String(arg) holds and what arg + CRLF begins with.
ArgText(arg) ==
    CASE arg.t = "str" -> arg.s
      [] arg.t = "int" -> NumToStr(arg.n)
      [] arg.t = "float" -> NumToStr(arg.n) \o <<".">> \o arg.s

\* An encoder that declares the number of characters of an argument.
RECURSIVE FormatArgsByChars(_)
FormatArgsByChars(commandArgs) ==
    IF commandArgs = <<>> THEN <<>>
    ELSE <<"$">> \o NumToStr(Len(ArgText(Head(commandArgs)))) \o CRLF
         \o ArgText(Head(commandArgs)) \o CRLF
         \o FormatArgsByChars(Tail(commandArgs))

RECURSIVE FormatArgs(_)
FormatArgs(commandArgs) ==
    IF commandArgs = <<>> THEN <<>>
    ELSE <<"$">> \o NumToStr(Utf8Length(ArgText(Head(commandArgs)))) \o CRLF
         \o ArgText(Head(commandArgs)) \o CRLF \o FormatArgs(Tail(commandArgs))

formatMultiBulkCommand(commandName, commandArgs) ==
    <<"*">> \o NumToStr(Len(commandArgs) + 1) \o CRLF
    \o <<"$">> \o NumToStr(Len(commandName)) \o CRLF
    \o commandName \o CRLF
    \o FormatArgs(commandArgs)

\* select: this.currentCmd = 'select ' + db
SelectCmd(db) == SELECT \o <<" ">> \o NumToStr(db)

\* The options record of sort.  given is FALSE for a call without the
\* second argument.  byPattern is text (empty: not set, '' being as falsy as
\* undefined), limit is <<>> or <<start, count>>, getPatterns a sequence of
\* patterns (empty: not set, an empty array adding nothing either), and the
\* two booleans are "absent", "true" or "false".
NoOptions ==
    [given |-> FALSE, byPattern |-> <<>>, limit |-> <<>>, getPatterns |-> <<>>,
     ascending |-> "absent", lexicographically |-> "absent"]

EmptyOptions == [NoOptions EXCEPT !.given = TRUE]

RECURSIVE OptGet(_)
OptGet(pats) ==
    IF pats = <<>> THEN <<>>
    ELSE <<"g", "e", "t", " ">> \o Head(pats) \o <<" ">> \o OptGet(Tail(pats))

\* cmd.replace(/\s+$/, '')
RECURSIVE TrimRight(_)
TrimRight(s) ==
    IF s # <<>> /\ IsSpace(s[Len(s)]) THEN TrimRight(SubSeq(s, 1, Len(s) - 1))
    ELSE s

SortCmd(key, options) ==
    LET cmd == SORT \o <<" ">> \o key
    IN IF ~options.given THEN cmd
       ELSE LET optBy == IF options.byPattern = <<>> THEN <<>>
                         ELSE <<"b", "y", " ">> \o options.byPattern
                optGet == OptGet(options.getPatterns)
                optAsc == IF options.ascending = "true" THEN <<>>
                          ELSE <<"d", "e", "s", "c">>
                optAlpha == IF options.lexicographically = "true"
                            THEN <<"a", "l", "p", "h", "a">> ELSE <<>>
                optLimit == IF options.limit = <<>> THEN <<>>
                            ELSE <<"l", "i", "m", "i", "t", " ">>
                                 \o NumToStr(options.limit[1]) \o <<" ">>
                                 \o NumToStr(options.limit[2])
            IN TrimRight(cmd \o <<" ">> \o optBy \o <<" ">> \o optLimit \o <<" ">>
                         \o optGet \o <<" ">> \o optAsc \o <<" ">> \o optAlpha
                         \o <<" ">> \o CRLF) \o CRLF

\* ------------------------------------------------------------ reply decoder
\* A decoder works on the bytes the stream holds (s) and on whether the
\* stream ends after them (eof: the peer has closed) or blocks for more.
\* Its outcome r.st is "ok", "block" (more bytes are needed and none will
\* come before the peer acts) or "throw" (an exception leaves the handler);
\* r.rest is what the stream still holds.

\* The least n >= 3 with s[n-1..n] = CR LF (buf.length() > 2), or 0.
RECURSIVE FindCRLF(_, _)
FindCRLF(s, n) ==
    IF n > Len(s) THEN 0
    ELSE IF s[n - 1] = CR /\ s[n] = LF THEN n
    ELSE FindCRLF(s, n + 1)

\* readToCRLF: the text before the terminator; undefined when the stream ends
\* first (the while loop falls through without a return).
readToCRLF(s, eof) ==
    LET at(n) ==
            IF n > 0
            THEN [st |-> "ok", v |-> VStr(SubSeq(s, 1, n - 2)), rest |-> Drop(s, n)]
            ELSE IF eof THEN [st |-> "ok", v |-> VUndef, rest |-> <<>>]
            ELSE [st |-> "block", v |-> VUndef, rest |-> s]
    IN at(FindCRLF(s, 3))

Blocked(s) == [st |-> "block", v |-> VUndef, rest |-> s]

Thrown(s) == [st |-> "throw", v |-> VUndef, rest |-> s]

RECURSIVE Pad(_)
Pad(n) == IF n <= 0 THEN <<>> ELSE <<NUL>> \o Pad(n - 1)

\* A bulk decoder that skips a terminator after a nil as after a payload.
handleBulkReplySkipping(s, eof, chunk) ==
    LET payload(rest, len, got) ==
            IF Len(rest) - got < 2 /\ ~eof THEN Blocked(Drop(rest, got))
            ELSE [st |-> "ok",
                  v |-> VStr(Utf8Text(Take(rest, got) \o Pad(len - got))),
                  rest |-> Drop(rest, got + 2)]
        bulk(rest, valueLength) ==
            IF valueLength.t = "int" /\ valueLength.n = -1
            THEN [st |-> "ok", v |-> VNull, rest |-> Drop(rest, 2)]
            ELSE IF valueLength.t # "int" \/ valueLength.n < 0 THEN Thrown(rest)
            ELSE IF valueLength.n > 0 /\ rest = <<>> /\ ~eof THEN Blocked(rest)
            ELSE payload(rest, valueLength.n,
                         Min(Min(valueLength.n, chunk), Len(rest)))
        line(l) == IF l.st # "ok" THEN l ELSE bulk(l.rest, ParseInt(l.v))
    IN line(readToCRLF(s, eof))

\* handleBulkReply.  chunk is the number of bytes one read(buf) of the
\* blocking source delivers at most; read(buf) is called once.  A length
\* that is NaN or below -1 makes newInstance throw.
handleBulkReply(s, eof, chunk) ==
    LET payload(rest, len, got) ==
            IF Len(rest) - got < 2 /\ ~eof THEN Blocked(Drop(rest, got))
            ELSE [st |-> "ok",
                  v |-> VStr(Utf8Text(Take(rest, got) \o Pad(len - got))),
                  rest |-> Drop(rest, got + 2)]
        bulk(rest, valueLength) ==
            IF valueLength.t = "int" /\ valueLength.n = -1
            THEN [st |-> "ok", v |-> VNull, rest |-> rest]
            ELSE IF valueLength.t # "int" \/ valueLength.n < 0 THEN Thrown(rest)
            ELSE IF valueLength.n > 0 /\ rest = <<>> /\ ~eof THEN Blocked(rest)
            ELSE payload(rest, valueLength.n,
                         Min(Min(valueLength.n, chunk), Len(rest)))
        line(l) == IF l.st # "ok" THEN l ELSE bulk(l.rest, ParseInt(l.v))
    IN line(readToCRLF(s, eof))

\* The loop of handleMultiBulkReply: skip(1), then one bulk reply, count times.
RECURSIVE BulkEntries(_, _, _, _, _)
BulkEntries(s, eof, chunk, count, entries) ==
    IF count <= 0 THEN [st |-> "ok", v |-> VArr(entries), rest |-> s]
    ELSE IF s = <<>> /\ ~eof THEN Blocked(s)
    ELSE LET next(bulkReply) ==
                 IF bulkReply.st # "ok" THEN bulkReply
                 ELSE BulkEntries(bulkReply.rest, eof, chunk, count - 1,
                                  Append(entries, bulkReply.v))
         IN next(handleBulkReply(Drop(s, 1), eof, chunk))

handleMultiBulkReply(s, eof, chunk) ==
    LET multi(rest, count) ==
            IF count.t = "int" /\ count.n = -1
            THEN [st |-> "ok", v |-> VArr(<<VNull>>), rest |-> rest]
            ELSE BulkEntries(rest, eof, chunk,
                             IF count.t = "int" THEN count.n ELSE 0, <<>>)
        line(l) == IF l.st # "ok" THEN l ELSE multi(l.rest, ParseInt(l.v))
    IN line(readToCRLF(s, eof))

OK == <<"O", "K">>

handleSingleLineReply(s, eof) ==
    LET line(l) == IF l.st = "ok" /\ l.v = VStr(OK) THEN [l EXCEPT !.v = VTrue] ELSE l
    IN line(readToCRLF(s, eof))

handleIntegerReply(s, eof) ==
    LET line(l) == IF l.st = "ok" THEN [l EXCEPT !.v = ParseInt(l.v)] ELSE l
    IN line(readToCRLF(s, eof))

ERR == <<"E", "R", "R", " ">>

SomethingBad ==
    <<"s", "o", "m", "e", "t", "h", "i", "n", "g", " ", "b", "a", "d", " ",
      "h", "a", "p", "p", "e", "n", "e", "d", ":", " ">>

\* handleErrorReply always throws; v is the message of the Error (undefined
\* when the line is: line.indexOf then throws a TypeError instead).
handleErrorReply(s, eof) ==
    LET line(l) ==
            IF l.st # "ok" THEN l
            ELSE IF l.v.t # "str" THEN Thrown(l.rest)
            ELSE [st |-> "throw",
                  v |-> IF Take(l.v.s, 4) # ERR THEN VStr(SomethingBad \o l.v.s)
                        ELSE VStr(Drop(l.v.s, 4)),
                  rest |-> l.rest]
    IN line(readToCRLF(s, eof))

\* String(v), for the values a regular expression is tested on here; <<"?">>
\* stands for a text no pattern of maybeConvertToNumber matches.
ToText(v) ==
    CASE v.t = "str" -> v.s
      [] v.t = "int" -> NumToStr(v.n)
      [] v.t = "array" /\ Len(v.a) = 1 /\ v.a[1].t = "str" -> v.a[1].s
      [] v.t = "array" /\ Len(v.a) = 1 /\ v.a[1].t = "int" -> NumToStr(v.a[1].n)
      [] OTHER -> <<"?">>

RECURSIVE SkipDigits(_)
SkipDigits(s) == IF s # <<>> /\ IsDigit(Head(s)) THEN SkipDigits(Tail(s)) ELSE s

RECURSIVE DropTrailingZeros(_)
DropTrailingZeros(s) ==
    IF s # <<>> /\ s[Len(s)] = "0" THEN DropTrailingZeros(SubSeq(s, 1, Len(s) - 1))
    ELSE s

\* maybeConvertToNumber: /^\s*\d+\s*$/ gives parseInt, /^\s*\d+\.(\d+)?\s*$/
\* gives parseFloat, anything else is returned as it is.
maybeConvertToNumber(str) ==
    LET fraction(k, digits, after) ==
            IF SkipSpace(after) # <<>> THEN str
            ELSE IF DropTrailingZeros(digits) = <<>> THEN VInt(k)
            ELSE VFloat(k, DropTrailingZeros(digits))
        number(s, after) ==
            IF Len(after) = Len(s) THEN str
            ELSE IF SkipSpace(after) = <<>> THEN VInt(DigitRun(s, 0))
            ELSE IF Head(after) # "." THEN str
            ELSE fraction(DigitRun(s, 0),
                          SubSeq(after, 2, Len(after) - Len(SkipDigits(Tail(after)))),
                          SkipDigits(Tail(after)))
        spaced(s) == number(s, SkipDigits(s))
    IN spaced(SkipSpace(ToText(str)))

\* result.split('\r\n'): lines is what was split off, line the piece begun.
RECURSIVE SplitLines(_, _, _)
SplitLines(s, line, lines) ==
    IF s = <<>> THEN Append(lines, line)
    ELSE IF Len(s) >= 2 /\ s[1] = CR /\ s[2] = LF
    THEN SplitLines(Tail(Tail(s)), <<>>, Append(lines, line))
    ELSE SplitLines(Tail(s), Append(line, Head(s)), lines)

\* line.split(':')
RECURSIVE SplitColon(_, _, _)
SplitColon(s, part, parts) ==
    IF s = <<>> THEN Append(parts, part)
    ELSE IF Head(s) = ":" THEN SplitColon(Tail(s), <<>>, Append(parts, part))
    ELSE SplitColon(Tail(s), Append(part, Head(s)), parts)

\* infoObject[name] = v
PutProperty(props, name, v) ==
    IF \E i \in 1..Len(props) : props[i].s = name
    THEN [i \in 1..Len(props) |->
             IF props[i].s = name THEN VProp(name, v) ELSE props[i]]
    ELSE Append(props, VProp(name, v))

RECURSIVE InfoObject(_, _)
InfoObject(lines, props) ==
    IF lines = <<>> THEN VObj(props)
    ELSE LET put(parts) ==
                 IF Len(parts) = 2
                 THEN PutProperty(props, parts[1], maybeConvertToNumber(VStr(parts[2])))
                 ELSE props
         IN InfoObject(Tail(lines), put(SplitColon(Head(lines), <<>>, <<>>)))

\* The commands whose integer reply is a truth value.
Flags == {SETNX, SADD, SISMEMBER, ZADD, ZREM}

\* A post-processing that takes only the integer 1 for true.
postProcessResultsOnlyOne(result, cmd) ==
    IF cmd = INFO
    THEN (IF result.t = "str" THEN InfoObject(SplitLines(result.s, <<>>, <<>>), <<>>)
          ELSE VThrown)
    ELSE IF cmd = LASTSAVE THEN maybeConvertToNumber(result)
    ELSE IF cmd \in Flags
    THEN (IF result = VInt(1) THEN VTrue ELSE VFalse)
    ELSE result

\* postProcessResults.  result.split throws when an info reply is no string.
postProcessResults(result, cmd) ==
    IF cmd = INFO
    THEN (IF result.t = "str" THEN InfoObject(SplitLines(result.s, <<>>, <<>>), <<>>)
          ELSE VThrown)
    ELSE IF cmd = LASTSAVE THEN maybeConvertToNumber(result)
    ELSE IF cmd \in Flags
    THEN (IF result = VInt(0) THEN VFalse ELSE VTrue)
    ELSE result

TypePrefixes == {"-", "+", "$", "*", ":"}

\* replyPrefixToHandler[typePrefix](responseStream)
Handler(typePrefix, s, eof, chunk) ==
    CASE typePrefix = "$" -> handleBulkReply(s, eof, chunk)
      [] typePrefix = "*" -> handleMultiBulkReply(s, eof, chunk)
      [] typePrefix = "+" -> handleSingleLineReply(s, eof)
      [] typePrefix = ":" -> handleIntegerReply(s, eof)
      [] typePrefix = "-" -> handleErrorReply(s, eof)

\* ------------------------------------------------------------------ server
\* The Redis server the client talks to: it reads commands off a connection's
\* query buffer, one complete command at a time (a multibulk frame, or an
\* inline line ended by LF), executes each against the connection's selected
\* database and writes one reply per command.  Bytes that do not yet make a
\* complete command stay in the buffer.

\* Databases 0..MaxDb of the server.
MaxDb == 1

Dbs == 0..MaxDb

Keys == {Key}

Absent == [has |-> FALSE, v |-> <<>>]

Holding(x) == [has |-> TRUE, v |-> x]

EmptyStore == [d \in Dbs |-> [k \in Keys |-> Absent]]

RECURSIVE FindLF(_, _)
FindLF(s, n) ==
    IF n > Len(s) THEN 0 ELSE IF s[n] = LF THEN n ELSE FindLF(s, n + 1)

\* One line of the query buffer, without its terminator.
ServerLine(s) ==
    LET at(n) ==
            IF n = 0 THEN [st |-> "more", line |-> <<>>, rest |-> s]
            ELSE [st |-> "ok",
                  line |-> IF n > 1 /\ s[n - 1] = CR THEN SubSeq(s, 1, n - 2)
                           ELSE SubSeq(s, 1, n - 1),
                  rest |-> Drop(s, n)]
    IN at(FindLF(s, 1))

RECURSIVE ServerBulkArgs(_, _, _)
ServerBulkArgs(s, count, args) ==
    IF count <= 0 THEN [st |-> "ok", args |-> args, rest |-> s]
    ELSE LET arg(l, len) ==
                 IF l.st # "ok" THEN [st |-> "more", args |-> <<>>, rest |-> s]
                 ELSE IF l.line = <<>> \/ Head(l.line) # "$" \/ len.t # "int" \/ len.n < 0
                 THEN [st |-> "bad", args |-> <<>>, rest |-> <<>>]
                 ELSE IF Len(l.rest) < len.n + 2
                 THEN [st |-> "more", args |-> <<>>, rest |-> s]
                 ELSE ServerBulkArgs(Drop(l.rest, len.n + 2), count - 1,
                                     Append(args, Take(l.rest, len.n)))
             line(l) == arg(l, ParseInt(VStr(Drop(l.line, 1))))
         IN line(ServerLine(s))

RECURSIVE SplitWords(_, _, _)
SplitWords(s, word, words) ==
    IF s = <<>> THEN (IF word = <<>> THEN words ELSE Append(words, word))
    ELSE IF Head(s) = " "
    THEN SplitWords(Tail(s), <<>>, IF word = <<>> THEN words ELSE Append(words, word))
    ELSE SplitWords(Tail(s), Append(word, Head(s)), words)

\* The next complete command of the query buffer, as its argument list.
ServerParse(qb) ==
    LET whole(r) == IF r.st = "more" THEN [r EXCEPT !.rest = qb] ELSE r
        multi(rest, count) ==
            IF count.t # "int" THEN [st |-> "bad", args |-> <<>>, rest |-> <<>>]
            ELSE whole(ServerBulkArgs(rest, count.n, <<>>))
        line(l) ==
            IF l.st # "ok" THEN [st |-> "more", args |-> <<>>, rest |-> qb]
            ELSE IF l.line # <<>> /\ Head(l.line) = "*"
            THEN multi(l.rest, ParseInt(VStr(Drop(l.line, 1))))
            ELSE [st |-> "ok", args |-> SplitWords(l.line, <<>>, <<>>),
                  rest |-> l.rest]
    IN line(ServerLine(qb))

StatusOK == <<"+", "O", "K", CR, LF>>

NilBulk == <<"$", "-", "1", CR, LF>>

EmptyMultiBulk == <<"*", "0", CR, LF>>

BulkOf(x) == <<"$">> \o NumToStr(Len(x)) \o CRLF \o x \o CRLF

IntegerOf(n) == <<":">> \o NumToStr(n) \o CRLF

ErrNotInteger == <<"-", "E", "R", "R", " ", "v", "a", "l", "u", "e", " ", "i", "s", " ", "n", "o", "t", " ", "a", "n", " ", "i", "n", "t", "e", "g", "e", "r", CR, LF>>

ErrWrongKind == <<"-", "E", "R", "R", " ", "w", "r", "o", "n", "g", " ", "k", "i", "n", "d", " ", "o", "f", " ", "v", "a", "l", "u", "e", CR, LF>>

ErrDbIndex == <<"-", "E", "R", "R", " ", "i", "n", "v", "a", "l", "i", "d", " ", "D", "B", " ", "i", "n", "d", "e", "x", CR, LF>>

ErrUnknown == <<"-", "E", "R", "R", " ", "u", "n", "k", "n", "o", "w", "n", " ", "c", "o", "m", "m", "a", "n", "d", CR, LF>>

ErrArgs == <<"-", "E", "R", "R", " ", "w", "r", "o", "n", "g", " ", "n", "u", "m", "b", "e", "r", " ", "o", "f", " ", "a", "r", "g", "u", "m", "e", "n", "t", "s", CR, LF>>

IsIntegerText(x) ==
    LET canonical(n) == n.t = "int" /\ NumToStr(n.n) = x
    IN canonical(ParseInt(VStr(x)))

\* One command executed against database db: the reply, the store and the
\* connection's database afterwards.
ServerExec(args, db, store) ==
    LET exec(name, k, cur) ==
            LET put(x) ==
                    IF k \in Keys THEN [store EXCEPT ![db][k] = Holding(x)] ELSE store
                same(reply) == [reply |-> reply, db |-> db, store |-> store]
                incr(n) == [reply |-> IntegerOf(n), db |-> db, store |-> put(NumToStr(n))]
                select(n) ==
                    IF n.t = "int" /\ n.n \in Dbs /\ NumToStr(n.n) = k
                    THEN [reply |-> StatusOK, db |-> n.n, store |-> store]
                    ELSE same(ErrDbIndex)
            IN CASE name = GET /\ Len(args) = 2 ->
                      same(IF cur.has THEN BulkOf(cur.v) ELSE NilBulk)
                 [] name = SET /\ Len(args) = 3 ->
                      [reply |-> StatusOK, db |-> db, store |-> put(args[3])]
                 [] name = SETNX /\ Len(args) = 3 ->
                      IF cur.has THEN same(IntegerOf(0))
                      ELSE [reply |-> IntegerOf(1), db |-> db, store |-> put(args[3])]
                 [] name = INCR /\ Len(args) = 2 ->
                      IF ~cur.has THEN incr(1)
                      ELSE IF IsIntegerText(cur.v)
                      THEN incr(ParseInt(VStr(cur.v)).n + 1)
                      ELSE same(ErrNotInteger)
                 [] name = SELECT /\ Len(args) = 2 -> select(ParseInt(VStr(k)))
                 [] name = SORT /\ Len(args) >= 2 ->
                      same(IF cur.has THEN ErrWrongKind ELSE EmptyMultiBulk)
                 [] name \in {GET, SET, SETNX, INCR, SELECT, SORT} -> same(ErrArgs)
                 [] OTHER -> same(ErrUnknown)
        keyed(name, k) == exec(name, k, IF k \in Keys THEN store[db][k] ELSE Absent)
    IN keyed(IF args = <<>> THEN <<>> ELSE args[1],
             IF Len(args) >= 2 THEN args[2] ELSE <<>>)

\* A connection as the server and the network hold it: closed is the client's
\* close(); peer is "up", "fin" (the server has closed it, as it does to an
\* idle client: what it sent before is still read, then end of stream) or
\* "rst" (the connection is reset: what was not read is lost and I/O fails);
\* db is the database the server has selected for it, inb the reply bytes
\* not yet read by the client, qb the server's query buffer.
NewSock == [closed |-> FALSE, peer |-> "up", db |-> 0, inb |-> <<>>, qb |-> <<>>]

ClosedSock == [closed |-> TRUE, peer |-> "fin", db |-> 0, inb |-> <<>>, qb |-> <<>>]

\* The server works through the query buffer of a connection; n counts the
\* commands it executes and replies collects what it answers.
RECURSIVE ServerRun(_, _, _, _)
ServerRun(sock, store, n, replies) ==
    LET done(rest, e) ==
            ServerRun([sock EXCEPT !.qb = rest, !.inb = @ \o e.reply, !.db = e.db],
                      e.store, n + 1, replies \o e.reply)
        parsed(p) ==
            IF p.st = "more"
            THEN [sock |-> sock, store |-> store, n |-> n, replies |-> replies]
            ELSE IF p.st = "bad"
            THEN [sock |-> [sock EXCEPT !.qb = <<>>, !.inb = @ \o ErrUnknown],
                  store |-> store, n |-> n, replies |-> replies \o ErrUnknown]
            ELSE IF p.args = <<>>
            THEN ServerRun([sock EXCEPT !.qb = p.rest], store, n, replies)
            ELSE done(p.rest, ServerExec(p.args, sock.db, store))
    IN parsed(ServerParse(sock.qb))

\* ------------------------------------------------------------------ state
VARIABLES
    conn,        \* this._conn: 0 (null) or the socket
    out,         \* this._out: the socket whose output stream it writes, 0 undefined
    inp,         \* this._inp: the socket whose input stream it reads, 0 undefined
    currentCmd,  \* this.currentCmd
    socks,       \* every socket the client has opened, in order
    store,       \* the server's databases
    pc,          \* where the caller is: "idle", or blocked in the first
                 \* ("read1") or second ("read2") processResponse of a call
    call,        \* the call in progress, or the last one
    res,         \* how the last call ended
    g,           \* what happened during the call (history, read by no code)
    sel,         \* history: the database of the caller's latest select
    lastSet,     \* history: the value of the set the previous call was, if
                 \* that call returned true
    ncalls,      \* calls made so far
    node         \* the client for Node (the asynchronous variant): its connections,
                 \* its module variables, and the history of what it sent and
                 \* handed to callbacks

vars ==
    <<conn, out, inp, currentCmd, socks, store, pc, call, res, g, sel, lastSet,
      ncalls, node>>

\* The part of the state the client's functions and the server work on.
World == [conn |-> conn, out |-> out, inp |-> inp, socks |-> socks,
          store |-> store, g |-> g]

NoHistory ==
    [wrote |-> 0,        \* writeCmd calls with the call's command
     io |-> 0,           \* writeCmd calls
     recon |-> 0,        \* reconnect calls of the retry path
     execs |-> 0,        \* commands the server executed for the call
     execDb |-> 0,       \* the database of the last of them
     reply |-> <<>>,     \* the server's reply to the last write
     sent |-> <<>>,      \* the texts writer.write has taken, in order
     sawErr |-> FALSE,   \* processResponse read an error reply
     errAt |-> 0,        \* ... first after that many writes
     sawBad |-> FALSE,   \* processResponse read an invalid type prefix
     badAt |-> 0,        \* ... first after that many writes
     w1fail |-> FALSE,   \* the transport failed the first write
     fail2 |-> FALSE,    \* the second attempt failed
     stale |-> FALSE,    \* the call began on a connection the server had closed
     shut |-> FALSE,     \* a write or a read was tried on a stream of a socket
                         \* the client had closed
     prev |-> FALSE,     \* the call before was a generic command that raised
                         \* with the server reachable and no error reply read
     refused |-> FALSE,  \* new Socket() failed
     msg |-> VUndef,     \* the message of the Error handleErrorReply threw last
     ioerr |-> FALSE,    \* what was thrown last came from the transport: a
                         \* failed write, read or connect, or end of stream
     envfail |-> FALSE,  \* the server or the network dropped a connection
                         \* while the call was in progress
     carried |-> 0,      \* the socket of the first write
     conn0 |-> 0,        \* this._conn when the call began
     nsock0 |-> 0]       \* sockets opened before the call

NoCall ==
    [op |-> "none", name |-> <<>>, cmd |-> <<>>, args |-> <<>>, options |-> NoOptions]

NoResult == [kind |-> "none", v |-> VUndef]

Returned(v) == [kind |-> "value", v |-> v]

Raised == [kind |-> "raise", v |-> VUndef]

\* --------------------------------------------------------------- the client
\* A fatal that closes the connection and keeps this._conn.
fatalKeepsHandle(w) ==
    [w EXCEPT !.socks = IF w.conn # 0 THEN [@ EXCEPT ![w.conn] = ClosedSock] ELSE @]

\* Redis.prototype.fatal: close the connection, null it and throw.
fatal(w) ==
    [w EXCEPT !.socks = IF w.conn # 0 THEN [@ EXCEPT ![w.conn] = ClosedSock] ELSE @,
              !.conn = 0]

Ok(w) == [w |-> w, exc |-> FALSE]

Threw(w) == [w |-> w, exc |-> TRUE]

\* The bytes reach the server, which executes what is complete.
Deliver(w, cmd) ==
    LET served(r) ==
            [w EXCEPT !.socks[w.out] = r.sock,
                      !.store = r.store,
                      !.g.execs = @ + r.n,
                      !.g.execDb = IF r.n > 0 THEN w.socks[w.out].db ELSE @,
                      !.g.reply = r.replies]
    IN served(ServerRun([w.socks[w.out] EXCEPT !.qb = @ \o cmd], w.store, 0, <<>>))

\* writeCmd: write and flush, any exception going to fatal.  The stream is
\* undefined before the first connect and closed after quit or fatal; on a
\* connection the peer has dropped, the write fails or is buffered and lost
\* (ok), as the transport decides.
writeCmd(w, cmd, ok) ==
    LET failed(v) == Threw(fatal([v EXCEPT !.g.ioerr = TRUE]))
        write(v) ==
            IF v.out = 0 \/ v.socks[v.out].closed THEN failed(v)
            ELSE IF v.socks[v.out].peer # "up"
            THEN (IF ok THEN Ok([v EXCEPT !.g.reply = <<>>,
                                          !.g.sent = Append(@, cmd)])
                  ELSE failed(v))
            ELSE Ok(Deliver([v EXCEPT !.g.sent = Append(@, cmd)], Utf8Bytes(cmd)))
    IN write([w EXCEPT !.g.io = @ + 1,
                       !.g.shut = @ \/ (w.out # 0 /\ w.socks[w.out].closed)])

\* A quit that takes a missing connection for a closed one and returns.
quitLenient(w, ok) ==
    IF w.conn = 0 THEN Ok(w)
    ELSE LET close(wr) ==
                 IF wr.exc THEN wr
                 ELSE Ok([wr.w EXCEPT !.socks[w.conn] = ClosedSock, !.conn = 0])
         IN close(writeCmd(w, QUIT, ok))

\* Redis.prototype.quit.  isConnected() stays true of a socket that was
\* connected once, so only a null _conn is "not open".
quit(w, ok) ==
    IF w.conn = 0 THEN Threw(fatal(w))
    ELSE LET close(wr) ==
                 IF wr.exc THEN wr
                 ELSE Ok([wr.w EXCEPT !.socks[w.conn] = ClosedSock, !.conn = 0])
         IN close(writeCmd(w, QUIT, ok))

\* A reconnect that opens the new socket without quitting the old one.
reconnectOver(w, ok, up) ==
    IF ~up THEN Threw([w EXCEPT !.g.refused = TRUE, !.g.ioerr = TRUE])
    ELSE Ok([w EXCEPT !.socks = Append(@, NewSock),
                      !.conn = Len(w.socks) + 1,
                      !.out = Len(w.socks) + 1,
                      !.inp = Len(w.socks) + 1])

\* reconnect: quit an existing connection, then open a socket and bind the
\* streams.  up: the server accepts the connection (new Socket throws if not).
reconnect(w, ok, up) ==
    LET open(q, n) ==
            IF q.exc THEN q
            ELSE IF ~up THEN Threw([q.w EXCEPT !.g.refused = TRUE, !.g.ioerr = TRUE])
            ELSE Ok([q.w EXCEPT !.socks = Append(@, NewSock),
                                !.conn = n, !.out = n, !.inp = n])
    IN open(IF w.conn # 0 THEN quit(w, ok) ELSE Ok(w), Len(w.socks) + 1)

\* processResponse.  st is "return" (with the value v), "throw" or "block".
processResponse(w, cmd, chunk) ==
    LET processed(v, result) ==
            IF result = VThrown
            THEN [w |-> [v EXCEPT !.g.ioerr = FALSE], st |-> "throw", v |-> VUndef]
            ELSE [w |-> v, st |-> "return", v |-> result]
        first(sock) ==
            LET handled(h) ==
                    IF h.st = "block" THEN [w |-> w, st |-> "block", v |-> VUndef]
                    ELSE IF h.st = "throw"
                    THEN [w |-> IF Head(sock.inb) = "-" /\ ~w.g.sawErr
                                THEN [w EXCEPT !.socks[w.inp].inb = h.rest,
                                               !.g.sawErr = TRUE,
                                               !.g.errAt = w.g.wrote,
                                               !.g.msg = h.v,
                                               !.g.ioerr = FALSE]
                                ELSE [w EXCEPT !.socks[w.inp].inb = h.rest,
                                               !.g.msg = IF Head(sock.inb) = "-"
                                                         THEN h.v ELSE @,
                                               !.g.ioerr = FALSE],
                          st |-> "throw", v |-> h.v]
                    ELSE processed([w EXCEPT !.socks[w.inp].inb = h.rest],
                                   postProcessResults(h.v, cmd))
            IN IF sock.inb = <<>>
               THEN CASE sock.peer = "up" -> [w |-> w, st |-> "block", v |-> VUndef]
                      [] sock.peer = "fin" ->
                           [w |-> [w EXCEPT !.g.ioerr = TRUE],
                            st |-> "throw", v |-> VUndef]
                      [] sock.peer = "rst" ->
                           [w |-> fatal([w EXCEPT !.g.ioerr = TRUE]),
                            st |-> "throw", v |-> VUndef]
               ELSE IF Head(sock.inb) \notin TypePrefixes
               THEN [w |-> fatal([w EXCEPT !.g.sawBad = TRUE,
                                           !.g.ioerr = FALSE,
                                           !.g.badAt = IF w.g.sawBad THEN @
                                                       ELSE w.g.wrote]),
                     st |-> "throw", v |-> VUndef]
               ELSE handled(Handler(Head(sock.inb), Tail(sock.inb),
                                    sock.peer # "up", chunk))
    IN IF w.inp = 0 \/ w.socks[w.inp].closed
       THEN [w |-> fatal([w EXCEPT !.g.ioerr = TRUE, !.g.shut = @ \/ w.inp # 0]),
             st |-> "throw", v |-> VUndef]
       ELSE first(w.socks[w.inp])

\* The catch block of a command: reconnect, then write the command again.
retry(w, cmd, okq, okw, up) ==
    LET written(wr) == IF wr.exc THEN Threw([wr.w EXCEPT !.g.fail2 = TRUE]) ELSE wr
        again(rc) ==
            IF rc.exc THEN rc
            ELSE written(writeCmd([rc.w EXCEPT !.g.wrote = @ + 1], cmd, okw))
    IN again(reconnect([w EXCEPT !.g.recon = @ + 1], okq, up))

\* A sender that does not open a connection when it finds none.
CommandSenderAsIs(w, commandName, commandArgs, okw, up) ==
    LET written(wr) ==
            IF wr.exc THEN [w |-> [wr.w EXCEPT !.g.w1fail = TRUE], st |-> "raise"]
            ELSE [w |-> wr.w, st |-> "read1"]
    IN IF commandName \notin commands THEN [w |-> fatal(w), st |-> "raise"]
       ELSE written(writeCmd([w EXCEPT !.g.wrote = 1, !.g.carried = w.out],
                             formatMultiBulkCommand(commandName, commandArgs),
                             okw))

\* The function createCommandSender(commandName) returns, up to its first
\* processResponse: st is "raise" or "read1".
CommandSender(w, commandName, commandArgs, okw, up) ==
    LET written(wr) ==
            IF wr.exc THEN [w |-> [wr.w EXCEPT !.g.w1fail = TRUE], st |-> "raise"]
            ELSE [w |-> wr.w, st |-> "read1"]
        send(c) ==
            IF c.exc THEN [w |-> c.w, st |-> "raise"]
            ELSE IF commandName \notin commands
            THEN [w |-> fatal(c.w), st |-> "raise"]
            ELSE written(writeCmd([c.w EXCEPT !.g.wrote = 1, !.g.carried = c.w.out],
                                  formatMultiBulkCommand(commandName, commandArgs),
                                  okw))
    IN send(IF w.conn = 0 THEN reconnect(w, TRUE, up) ELSE Ok(w))

\* ------------------------------------------------- the client for Node
\* redis.js for Node (src/unnamed/part_001): commands are sent without
\* waiting and each reply is handed to the callback of its command when the
\* 'receive' events have delivered it.
MGET == <<"m", "g", "e", "t">>

\* The tables of commands, as far as the callers here use them.  The last
\* name of inlineCommands is ping.
inlineCommands == {GET, MGET, PING}

bulkCommands == {SET}

LastInline == PING

\* The commandName the sender exported under a name was created with: the
\* second loop of the registration passes commandName, which the first loop
\* has left at its last name, for every bulkCommand.
SenderName(name) == IF name \in inlineCommands THEN name ELSE LastInline

\* JavaScript numbers: an integer or NaN.
Plus(a, b) == IF a.t = "int" /\ b.t = "int" THEN VInt(a.n + b.n) ELSE VNaN

Minus(a, b) == IF a.t = "int" /\ b.t = "int" THEN VInt(a.n - b.n) ELSE VNaN

\* s.indexOf(pat, from), positions counted from 0: -1 when pat is not found.
RECURSIVE IndexFrom(_, _, _)
IndexFrom(s, pat, from) ==
    IF from + Len(pat) > Len(s) THEN -1
    ELSE IF SubSeq(s, from + 1, from + Len(pat)) = pat THEN from
    ELSE IndexFrom(s, pat, from + 1)

IndexOf(s, pat, from) ==
    IndexFrom(s, pat, IF from.t = "int" /\ from.n > 0 THEN from.n ELSE 0)

\* s.substr(start, length): NaN counts as 0, a negative start from the end.
Substr(s, start, length) ==
    LET from == IF start.t # "int" THEN 0
                ELSE IF start.n < 0 THEN (IF Len(s) + start.n < 0 THEN 0
                                          ELSE Len(s) + start.n)
                ELSE Min(start.n, Len(s))
        n == IF length.t # "int" \/ length.n < 0 THEN 0
             ELSE Min(length.n, Len(s) - from)
    IN SubSeq(s, from + 1, from + n)

\* s.substr(start)
SubstrFrom(s, start) == Substr(s, start, VInt(Len(s)))

\* s.charAt(i): the empty string outside s.
CharAt(s, i) == IF i.t = "int" /\ i.n >= 0 /\ i.n < Len(s) THEN s[i.n + 1] ELSE ""

\* Number(text): white space around the text is dropped, the empty text is 0
\* and a text that is no number is NaN.
JsNumber(text) ==
    LET digits(t) == t # <<>> /\ \A i \in 1..Len(t) : IsDigit(t[i])
        number(t) == IF t = <<>> THEN VInt(0)
                     ELSE IF digits(t) \/ (Head(t) \in {"-", "+"} /\ digits(Tail(t)))
                     THEN ParseInt(VStr(t))
                     ELSE VNaN
    IN number(TrimRight(SkipSpace(text)))

\* data.split(sep).length - 1
RECURSIVE Occurrences(_, _, _)
Occurrences(s, sep, from) ==
    LET at == IndexFrom(s, sep, from)
    IN IF at < 0 THEN 0 ELSE 1 + Occurrences(s, sep, at + Len(sep))

\* formatInline(commandName, commandArgs, argCount)
RECURSIVE formatInline(_, _)
formatInline(commandName, commandArgs) ==
    IF commandArgs = <<>> THEN commandName \o CRLF
    ELSE formatInline(commandName \o <<" ">> \o Head(commandArgs), Tail(commandArgs))

\* formatBulk(commandName, commandArgs, argCount), of one argument at least
\* and all of them strings.
RECURSIVE formatBulk(_, _)
formatBulk(commandName, commandArgs) ==
    IF Len(commandArgs) = 1
    THEN commandName \o <<" ">> \o NumToStr(Len(commandArgs[1])) \o CRLF
         \o commandArgs[1] \o CRLF
    ELSE formatBulk(commandName \o <<" ">> \o Head(commandArgs), Tail(commandArgs))

\* The reply handlers: what they make of the reply at offset of the data
\* received, and the offset of the reply after it.
node_handleBulkReply(reply, offset) ==
    LET at == Plus(offset, VInt(1))
        crlfIndex == VInt(IndexOf(reply, CRLF, at))
        valueLength == ParseInt(VStr(Substr(reply, at, Minus(crlfIndex, at))))
    IN IF valueLength = VInt(-1)
       THEN [v |-> VNull, off |-> Plus(crlfIndex, VInt(2))]
       ELSE [v |-> VStr(Substr(reply, Plus(crlfIndex, VInt(2)), valueLength)),
             off |-> Plus(Plus(crlfIndex, VInt(4)), valueLength)]

RECURSIVE node_Entries(_, _, _, _)
node_Entries(reply, offset, count, entries) ==
    LET pushed(bulkReply) ==
            node_Entries(reply, bulkReply.off, count - 1, Append(entries, bulkReply.v))
    IN IF count <= 0 THEN [v |-> VArr(entries), off |-> offset]
       ELSE pushed(node_handleBulkReply(reply, offset))

node_handleMultiBulkReply(reply, offset) ==
    LET at == Plus(offset, VInt(1))
        crlfIndex == VInt(IndexOf(reply, CRLF, at))
        count == ParseInt(VStr(Substr(reply, at, Minus(crlfIndex, at))))
        first == Plus(crlfIndex, VInt(2))
    IN IF count = VInt(-1) THEN [v |-> VNull, off |-> first]
       ELSE node_Entries(reply, first, IF count.t = "int" THEN count.n ELSE 0, <<>>)

node_handleSingleLineReply(reply, offset) ==
    LET at == Plus(offset, VInt(1))
        crlfIndex == VInt(IndexOf(reply, CRLF, at))
        value == Substr(reply, at, Minus(crlfIndex, at))
    IN [v |-> IF value = OK THEN VTrue ELSE VStr(value),
        off |-> Plus(crlfIndex, VInt(2))]

node_handleIntegerReply(reply, offset) ==
    LET at == Plus(offset, VInt(1))
        crlfIndex == VInt(IndexOf(reply, CRLF, at))
    IN [v |-> ParseInt(VStr(Substr(reply, at, Minus(crlfIndex, at)))),
        off |-> Plus(crlfIndex, VInt(2))]

node_handleErrorReply(reply, offset) ==
    LET crlfIndex == VInt(IndexOf(reply, CRLF, Plus(offset, VInt(1))))
    IN [v |-> VStr(<<"e", "r", "r", "o", "r">>), off |-> Plus(crlfIndex, VInt(2))]

\* replyPrefixToHandler[prefix](reply, offset)
node_replyHandler(prefix, reply, offset) ==
    CASE prefix = "$" -> node_handleBulkReply(reply, offset)
      [] prefix = "*" -> node_handleMultiBulkReply(reply, offset)
      [] prefix = "+" -> node_handleSingleLineReply(reply, offset)
      [] prefix = ":" -> node_handleIntegerReply(reply, offset)
      [] prefix = "-" -> node_handleErrorReply(reply, offset)

\* postProcessResults(command, result) for the commands sent here, none of
\* them info, keys or lastsave: the default branch.
node_postProcessResults(command, result) == result

\* A connection: conn.readyState ("closing" is a connection the client has
\* closed while it was opening and whose connect event is still to come),
\* the callback _connect has put on its connect event (id 0: none), what the
\* server has received of a command (qb) and the reply bytes on their way to
\* the client (inb).
NoDeferred == [id |-> 0, name |-> <<>>, args |-> <<>>, cb |-> FALSE]

NewConnection(cb) == [readyState |-> "opening", cb |-> cb, qb |-> <<>>, inb |-> <<>>]

\* The module before connect(): conn is 0 while undefined, multiBulkCount is
\* a global that exists between the start of a multi-bulk reply and the next
\* processResponseEnd, and lastPrefix is "" while null.  issued, deferred,
\* sent and handed are history: the calls made, the ids of those made on a
\* connection that was not open, the commands conn.send has taken and the
\* results passed to callbacks; thrown tells that an event handler threw or
\* did not return.
NoNode ==
    [conn |-> 0, conns |-> <<>>, chunks |-> <<>>, callbacks |-> <<>>,
     lastPrefix |-> "", lastChunk |-> VNull, multiBulkCount |-> VUndef,
     issued |-> 0, deferred |-> {}, sent |-> <<>>, handed |-> <<>>,
     thrown |-> FALSE]

\* The server of this client: every key holds its own name, mget's second
\* key is absent, no key holds a list, and a command is answered when its
\* last byte has arrived.
NodeErr == <<"-", "E", "R", "R", " ", "a", "r", "g", "s", CR, LF>>

NodeReplyTo(words) ==
    CASE words[1] = GET /\ Len(words) = 2 -> BulkOf(words[2])
      [] words[1] = MGET /\ Len(words) = 3 ->
             <<"*", "2", CR, LF>> \o BulkOf(words[2]) \o NilBulk
      [] words[1] = PING /\ Len(words) = 1 -> <<"+", "P", "O", "N", "G", CR, LF>>
      [] words[1] = SORT /\ Len(words) >= 2 -> EmptyMultiBulk
      [] OTHER -> NodeErr

RECURSIVE NodeServe(_, _)
NodeServe(qb, replies) ==
    LET eol == IndexFrom(qb, CRLF, 0)
        words == SplitWords(SubSeq(qb, 1, eol), <<>>, <<>>)
        size == ParseInt(VStr(words[Len(words)]))
        bulk == words # <<>> /\ words[1] = SET /\ Len(words) = 3 /\ size.t = "int"
    IN IF eol < 0 THEN [qb |-> qb, inb |-> replies]
       ELSE IF words = <<>> THEN NodeServe(Drop(qb, eol + 2), replies)
       ELSE IF bulk
       THEN (IF Len(qb) < eol + 2 + size.n + 2 THEN [qb |-> qb, inb |-> replies]
             ELSE NodeServe(Drop(qb, eol + 2 + size.n + 2), replies \o StatusOK))
       ELSE NodeServe(Drop(qb, eol + 2), replies \o NodeReplyTo(words))

\* The whole reply of the server to a command sent alone.
NodeReply(text) == NodeServe(text, <<>>).inb

\* conn.send(cmd) on the open connection, cmd being the command of call c.
node_send(nd, c, cmd) ==
    LET served(r) ==
            [nd EXCEPT !.conns[nd.conn].qb = r.qb,
                       !.conns[nd.conn].inb = @ \o r.inb,
                       !.sent = Append(@, [id |-> c.id, name |-> c.name,
                                           args |-> c.args, text |-> cmd])]
    IN served(NodeServe(nd.conns[nd.conn].qb \o cmd, <<>>))

\* conn.close().  Whether a connection that is closed while it is opening
\* still emits connect is the platform's choice (cancel: it does not).
node_close(nd, cancel) ==
    LET state == nd.conns[nd.conn].readyState
    IN [nd EXCEPT !.conns[nd.conn].readyState =
                      IF state = "opening" /\ ~cancel THEN "closing"
                      ELSE IF state = "closing" THEN state
                      ELSE "closed",
                  !.conns[nd.conn].inb = <<>>,
                  !.conns[nd.conn].qb = <<>>]

\* _connect(cb)
node_connect(nd, cb) ==
    [nd EXCEPT !.chunks = <<>>,
               !.lastPrefix = "", !.lastChunk = VNull,
               !.conns = Append(@, NewConnection(cb)),
               !.conn = Len(nd.conns) + 1]

\* The function createCommandSender returns, exported as c.name and called
\* with c.args and, when c.cb, a callback.
node_createCommandSender(nd, c, cancel) ==
    LET commandName == SenderName(c.name)
        cmd == IF commandName \in inlineCommands
               THEN formatInline(commandName, c.args)
               ELSE formatBulk(commandName, c.args)
    IN IF nd.conns[nd.conn].readyState # "open"
       THEN node_connect([node_close(nd, cancel) EXCEPT !.deferred = @ \cup {c.id}], c)
       ELSE node_send([nd EXCEPT !.callbacks =
                           Append(@, [cb |-> IF c.cb THEN c.id ELSE 0,
                                      cmd |-> commandName])],
                      c, cmd)

\* exports.sort(key, options, callback) on an open connection.
node_sort(nd, c, options) ==
    [node_send(nd, c, SortCmd(c.args[1], options))
       EXCEPT !.callbacks = Append(@, [cb |-> IF c.cb THEN c.id ELSE 0,
                                       cmd |-> SORT])]

\* processResponseStart(prefix, handler, chunk)
node_processResponseStart(nd, prefix, chunk) ==
    LET firstBreak == VInt(IndexOf(chunk, CRLF, VInt(0)))
        kept == [nd EXCEPT !.lastPrefix = prefix, !.lastChunk = VStr(chunk)]
    IN IF prefix = "*"
       THEN [kept EXCEPT !.multiBulkCount = JsNumber(Substr(chunk, VInt(1), firstBreak)),
                         !.chunks = <<>>]
       ELSE kept

\* allPartsReceived(data)
node_allPartsReceived(nd, data) ==
    \/ nd.multiBulkCount = VUndef
    \/ ~(/\ nd.multiBulkCount.t = "int"
          /\ Occurrences(data, CRLF \o <<"$">>, 0) < nd.multiBulkCount.n)

\* The loop of processResponseEnd.  delete leaves lastHandler and lastChunk,
\* which var declares, as they are.  A handler that is null throws, and a
\* loop that has gone round MaxLoop times is taken for one that does not
\* end (every round puts lastChunk before the data again): the event handler
\* does not return either way.
MaxLoop == 8

RECURSIVE node_Replies(_, _, _, _)
node_Replies(nd, data, offset, rounds) ==
    LET callback == IF nd.callbacks = <<>> THEN [cb |-> 0, cmd |-> <<>>]
                    ELSE Head(nd.callbacks)
        shifted == [nd EXCEPT !.callbacks = IF @ = <<>> THEN @ ELSE Tail(@)]
        known == CharAt(data, offset) \in TypePrefixes
        replyHandler == IF known THEN CharAt(data, offset) ELSE nd.lastPrefix
        all == IF known THEN data
               ELSE (IF nd.lastChunk = VNull THEN <<"n", "u", "l", "l">>
                     ELSE nd.lastChunk.s) \o data
        called(resultInfo) ==
            node_Replies(IF callback.cb = 0 THEN shifted
                         ELSE [shifted EXCEPT
                                 !.handed = Append(@, [cb |-> callback.cb,
                                     result |-> node_postProcessResults(
                                                    callback.cmd, resultInfo.v)]),
                                 !.chunks = <<>>],
                         all, resultInfo.off, rounds + 1)
    IN IF offset.t # "int" \/ offset.n >= Len(data) THEN nd
       ELSE IF replyHandler = "" \/ rounds >= MaxLoop
       THEN [shifted EXCEPT !.thrown = TRUE]
       ELSE called(node_replyHandler(replyHandler, all, offset))

\* processResponseEnd(data)
node_processResponseEnd(nd, data) ==
    node_Replies([nd EXCEPT !.multiBulkCount = VUndef, !.chunks = <<>>],
                 data, VInt(0), 0)

\* processChunk(chunk)
node_processChunk(nd, chunk) ==
    LET started == IF Head(chunk) \in TypePrefixes
                   THEN node_processResponseStart(nd, Head(chunk), chunk)
                   ELSE nd
        pushed == [started EXCEPT !.chunks = Append(@, chunk)]
    IN IF chunk = <<>> THEN [nd EXCEPT !.thrown = TRUE]
       ELSE IF SubstrFrom(chunk, VInt(Len(chunk) - 2)) # CRLF
       THEN pushed
       ELSE IF node_allPartsReceived(pushed, Concat(pushed.chunks))
       THEN node_processResponseEnd(pushed, Concat(pushed.chunks))
       ELSE pushed

\* ----------------------------------------------------------------- actions
\* Bytes one read(buf) delivers at most: 1..MaxChunk.
MaxChunk == 3

Chunks == 1..MaxChunk

\* The caller's arguments.
SetValues == {Bar, Quid, TwoLines}

CommandCalls ==
    {<<GET, <<VStr(Key)>>>>, <<INCR, <<VStr(Key)>>>>,
     <<SETNX, <<VStr(Key), VStr(Bar)>>>>}
    \cup {<<SET, <<VStr(Key), VStr(v)>>>> : v \in SetValues}

DbIds == {<<"0">>, <<"1">>, <<"x">>}

SortOptions ==
    {NoOptions, EmptyOptions, [EmptyOptions EXCEPT !.limit = <<0, 2>>],
     [EmptyOptions EXCEPT !.lexicographically = "true"],
     [EmptyOptions EXCEPT !.ascending = "true"],
     [EmptyOptions EXCEPT !.ascending = "false"],
     [EmptyOptions EXCEPT !.ascending = "true", !.limit = <<0, 2>>]}

Init ==
    /\ conn = 0 /\ out = 0 /\ inp = 0
    /\ currentCmd = <<>>
    /\ socks = <<>>
    /\ store \in {EmptyStore, [EmptyStore EXCEPT ![0][Key] = Holding(Bar)],
                  [EmptyStore EXCEPT ![0][Key] = Holding(Tail5)]}
    /\ pc = "idle"
    /\ call = NoCall
    /\ res = NoResult
    /\ g = NoHistory
    /\ sel = [db |-> -1, how |-> "none"]
    /\ lastSet = Absent
    /\ ncalls = 0
    /\ node = NoNode

\* The world a call starts in.
W0 ==
    [World EXCEPT !.g = [NoHistory EXCEPT
        !.stale = conn # 0 /\ socks[conn].peer = "fin" /\ socks[conn].inb = <<>>,
        !.prev = /\ call.op = "command" /\ res = Raised
                 /\ ~g.sawErr /\ ~g.refused /\ ~g.envfail,
        !.conn0 = conn,
        !.nsock0 = Len(socks)]]

Commit(w) ==
    /\ Len(w.socks) <= MaxSockets
    /\ conn' = w.conn /\ out' = w.out /\ inp' = w.inp
    /\ socks' = w.socks /\ store' = w.store /\ g' = w.g
    /\ UNCHANGED node

\* The value of a set call, from its command.
SetValue(cmd) ==
    CHOOSE v \in SetValues : cmd = formatMultiBulkCommand(SET, <<VStr(Key), VStr(v)>>)

\* A call begins; args are the arguments of a generic command and options is
\* the options argument of a sort.
BeginWith(op, name, cmd, args, options) ==
    /\ pc = "idle"
    /\ ncalls < MaxCalls
    /\ ncalls' = ncalls + 1
    /\ call' = [op |-> op, name |-> name, cmd |-> cmd, args |-> args,
                options |-> options]
    /\ lastSet' = IF call.op = "command" /\ call.name = SET /\ res = Returned(VTrue)
                  THEN Holding(SetValue(call.cmd))
                  ELSE Absent

Begin(op, name, cmd) == BeginWith(op, name, cmd, <<>>, NoOptions)

\* The select history a call leaves: a select sets it when it ends, connect
\* and quit clear it, other calls keep it.
SelAtEnd(c, r) ==
    IF c.op = "select"
    THEN [db |-> ParseInt(VStr(c.name)).n,
          how |-> IF r = Returned(VTrue) THEN "true" ELSE r.kind]
    ELSE IF c.op \in {"connect", "quit"} THEN [db |-> -1, how |-> "none"]
    ELSE sel

End(w, r, c) ==
    /\ Commit(w)
    /\ pc' = "idle"
    /\ res' = r
    /\ sel' = SelAtEnd(c, r)

Blocks(w, at) ==
    /\ Commit(w)
    /\ pc' = at
    /\ res' = NoResult
    /\ UNCHANGED sel

\* redis.<commandName>(args...)
Command ==
    \E c \in CommandCalls, okw, up \in BOOLEAN :
        LET sent(r) ==
                IF r.st = "raise" THEN End(r.w, Raised, call')
                ELSE Blocks(r.w, "read1")
        IN /\ BeginWith("command", c[1], formatMultiBulkCommand(c[1], c[2]),
                        c[2], NoOptions)
           /\ currentCmd' = c[1]
           /\ sent(CommandSender(W0, c[1], c[2], okw, up))

\* redis.select(dbId)
Select ==
    \E dbId \in DbIds, okw1, okw2, up \in BOOLEAN :
        LET caught(t) ==
                IF t.exc THEN End(t.w, Raised, call') ELSE Blocks(t.w, "read2")
            tried(wr, cmd) ==
                IF ~wr.exc THEN Blocks(wr.w, "read1")
                ELSE caught(retry([wr.w EXCEPT !.g.w1fail =
                                       out # 0 /\ ~socks[out].closed],
                                  cmd, TRUE, okw2, up))
            select(db, cmd) ==
                /\ Begin("select", dbId, cmd)
                /\ IF db.t # "int"
                   THEN currentCmd' = currentCmd /\ End(W0, Raised, call')
                   ELSE /\ currentCmd' = cmd
                        /\ tried(writeCmd([W0 EXCEPT !.g.wrote = 1,
                                                     !.g.carried = out],
                                          cmd, okw1), cmd)
            parsed(db) == select(db, SelectCmd(db.n))
        IN parsed(ParseInt(VStr(dbId)))

\* redis.sort(key, options)
Sort ==
    \E options \in SortOptions, okw, up \in BOOLEAN :
        LET written(wr) ==
                IF wr.exc THEN End([wr.w EXCEPT !.g.w1fail = TRUE], Raised, call')
                ELSE Blocks(wr.w, "read1")
            sort(c, cmd) ==
                /\ BeginWith("sort", SORT, cmd, <<>>, options)
                /\ IF c.exc THEN currentCmd' = currentCmd /\ End(c.w, Raised, call')
                   ELSE /\ currentCmd' = cmd
                        /\ written(writeCmd([c.w EXCEPT !.g.wrote = 1,
                                                        !.g.carried = c.w.out],
                                            cmd, okw))
        IN sort(IF conn = 0 THEN reconnect(W0, TRUE, up) ELSE Ok(W0),
                SortCmd(Key, options))

\* redis.connect()
Connect ==
    \E okq, up \in BOOLEAN :
        LET done(r) == End(r.w, IF r.exc THEN Raised ELSE Returned(VUndef), call')
        IN /\ Begin("connect", <<>>, <<>>)
           /\ done(reconnect(W0, okq, up))
           /\ UNCHANGED currentCmd

\* redis.quit()
Quit ==
    \E okq \in BOOLEAN :
        LET done(r) == End(r.w, IF r.exc THEN Raised ELSE Returned(VUndef), call')
        IN /\ Begin("quit", <<>>, <<>>)
           /\ done(quit(W0, okq))
           /\ UNCHANGED currentCmd

\* The first processResponse of a call unblocks: its value is returned, or
\* what it throws is caught and the command retried.
ReadReply1 ==
    /\ pc = "read1"
    /\ \E chunk \in Chunks, okq, okw, up \in BOOLEAN :
        LET caught(t) ==
                IF t.exc THEN End(t.w, Raised, call) ELSE Blocks(t.w, "read2")
            read(r) ==
                /\ r.st # "block"
                /\ IF r.st = "return" THEN End(r.w, Returned(r.v), call)
                   ELSE caught(retry(r.w, call.cmd, okq, okw, up))
        IN read(processResponse(World, currentCmd, chunk))
    /\ UNCHANGED <<currentCmd, call, lastSet, ncalls>>

\* A retry path that catches the second failure too and tries once more.
ReadReply2Again ==
    /\ pc = "read2"
    /\ \E chunk \in Chunks, okq, okw, up \in BOOLEAN :
        LET caught(t) ==
                IF t.exc THEN End(t.w, Raised, call) ELSE Blocks(t.w, "read2")
            read(r) ==
                /\ r.st # "block"
                /\ IF r.st = "return" THEN End(r.w, Returned(r.v), call)
                   ELSE caught(retry(r.w, call.cmd, okq, okw, up))
        IN read(processResponse(World, currentCmd, chunk))
    /\ UNCHANGED <<currentCmd, call, lastSet, ncalls>>

\* The processResponse of the retry unblocks: what it throws reaches the
\* caller.
ReadReply2 ==
    /\ pc = "read2"
    /\ \E chunk \in Chunks :
        LET read(r) ==
                /\ r.st # "block"
                /\ IF r.st = "return" THEN End(r.w, Returned(r.v), call)
                   ELSE End([r.w EXCEPT !.g.fail2 = TRUE], Raised, call)
        IN read(processResponse(World, currentCmd, chunk))
    /\ UNCHANGED <<currentCmd, call, lastSet, ncalls>>

\* The server closes a connection (an idle client's, or any).
ServerClose ==
    \E i \in 1..Len(socks) :
        /\ ~socks[i].closed /\ socks[i].peer = "up"
        /\ socks' = [socks EXCEPT ![i].peer = "fin", ![i].qb = <<>>]
        /\ g' = [g EXCEPT !.envfail = @ \/ pc # "idle"]
        /\ UNCHANGED <<conn, out, inp, currentCmd, store, pc, call, res, sel,
                       lastSet, ncalls, node>>

\* The network resets a connection: replies not yet read are lost.
ConnReset ==
    \E i \in 1..Len(socks) :
        /\ ~socks[i].closed /\ socks[i].peer = "up"
        /\ socks' = [socks EXCEPT ![i].peer = "rst", ![i].qb = <<>>, ![i].inb = <<>>]
        /\ g' = [g EXCEPT !.envfail = @ \/ pc # "idle"]
        /\ UNCHANGED <<conn, out, inp, currentCmd, store, pc, call, res, sel,
                       lastSet, ncalls, node>>

\* A sender createCommandSender makes for a name that is not in commands.
UnknownCommand ==
    \E okw, up \in BOOLEAN :
        LET sent(r) ==
                IF r.st = "raise" THEN End(r.w, Raised, call')
                ELSE Blocks(r.w, "read1")
        IN /\ Begin("unknown", FOO, formatMultiBulkCommand(FOO, <<VStr(Key)>>))
           /\ currentCmd' = FOO
           /\ sent(CommandSender(W0, FOO, <<VStr(Key)>>, okw, up))

Next ==
    \/ Command
    \/ Select
    \/ Sort
    \/ Connect
    \/ Quit
    \/ ReadReply1
    \/ ReadReply2
    \/ ServerClose
    \/ ConnReset

Spec == Init /\ [][Next]_vars

\* The processResponse a call is blocked in can return or throw: the stream
\* holds what it waits for, or has ended.
CanRead ==
    /\ pc # "idle"
    /\ \E chunk \in Chunks : processResponse(World, currentCmd, chunk).st # "block"

\* The step ReadReply1 or ReadReply2 takes then, as pc shows it.
Unblock == CanRead /\ pc' \in {"idle", "read2"}

\* A blocking read that can return does; nothing obliges the server or the
\* network to drop a connection.
SpecFair == Spec /\ WF_pc(Unblock)

\* ------------------------------------------------------- the decoder alone
\* Replies a server sends, well formed or not.
NilMultiBulk == <<"*", "-", "1", CR, LF>>

InfoBlob ==
    <<"a", ":", "1", CR, LF, "b", ":", "2", ".", "5", CR, LF, "c", ":", "t", CR, LF>>

DecodeReplies ==
    {NilBulk, BulkOf(Bar), BulkOf(<<>>), BulkOf(<<"1", "2">>), BulkOf(InfoBlob),
     NilMultiBulk, EmptyMultiBulk,
     <<"*", "1", CR, LF>> \o NilBulk,
     <<"*", "2", CR, LF>> \o BulkOf(Bar) \o NilBulk,
     <<"*", "2", CR, LF>> \o NilBulk \o BulkOf(<<"x">>),
     <<"*", "1", CR, LF>> \o IntegerOf(7),
     StatusOK, <<"+", CR, LF>>, <<"+", "P", "O", "N", "G", CR, LF>>,
     IntegerOf(0), IntegerOf(1), IntegerOf(7), IntegerOf(-1),
     ErrUnknown, <<"-", "x", CR, LF>>, <<"!", CR, LF>>, <<>>,
     <<"+", "O", "K">>, <<":", "1">>}

\* What the stream holds after the reply.
DecodeFollowers == {<<>>, StatusOK, Bar \o CRLF, IntegerOf(1)}

DecodeNames == {GET, PING, SETNX, SADD, SISMEMBER, ZADD, ZREM, INFO, LASTSAVE}

\* A sender has written its command and is about to read the reply, on its
\* first attempt or, after a reconnect, on its second; the stream holds any
\* reply and any bytes after it, and ends there (the server has closed) or
\* not.
InitDecode ==
    \E name \in DecodeNames, reply \in DecodeReplies,
       after \in DecodeFollowers, peer \in {"up", "fin"}, attempt \in 1..2 :
        /\ conn = attempt /\ out = attempt /\ inp = attempt
        /\ currentCmd = name
        /\ socks = [i \in 1..attempt |->
                       IF i < attempt THEN ClosedSock
                       ELSE [NewSock EXCEPT !.inb = reply \o after, !.peer = peer]]
        /\ store = EmptyStore
        /\ pc = IF attempt = 1 THEN "read1" ELSE "read2"
        /\ call = [op |-> "command", name |-> name,
                   cmd |-> formatMultiBulkCommand(name, <<VStr(Key)>>),
                   args |-> <<VStr(Key)>>, options |-> NoOptions]
        /\ res = NoResult
        /\ g = [NoHistory EXCEPT
                   !.wrote = attempt, !.io = 2 * attempt - 1,
                   !.recon = attempt - 1, !.execs = attempt,
                   !.reply = reply \o after,
                   !.sent = IF attempt = 1
                            THEN <<formatMultiBulkCommand(name, <<VStr(Key)>>)>>
                            ELSE <<formatMultiBulkCommand(name, <<VStr(Key)>>), QUIT,
                                   formatMultiBulkCommand(name, <<VStr(Key)>>)>>,
                   !.carried = 1, !.conn0 = 1, !.nsock0 = 1]
        /\ sel = [db |-> -1, how |-> "none"]
        /\ lastSet = Absent
        /\ ncalls = 1
        /\ node = NoNode

SpecDecode == InitDecode /\ [][ReadReply1 \/ ReadReply2]_vars

\* The same with senders for unknown names.
SpecUnknown == Init /\ [][Next \/ UnknownCommand]_vars

\* -------------------------------------------------- post-processing alone
\* Lines an info reply is made of.
MaxLines == 2

InfoLines ==
    {<<"a", ":", "1">>, <<"b", ":", "2", ".", "5">>, <<"c", ":", "t">>,
     <<"d", ":", "x", ":", "y">>, <<"#", "s">>, <<"e", ":">>, <<>>,
     <<"a", ":", "0", "7">>}

RECURSIVE Terminated(_)
Terminated(lines) ==
    IF lines = <<>> THEN <<>> ELSE Head(lines) \o CRLF \o Terminated(Tail(lines))

InfoBlobs ==
    {Terminated(lines) : lines \in UNION {[1..n -> InfoLines] : n \in 1..MaxLines}}

\* processResponse has decoded a bulk reply to the text in g.reply and is
\* about to post-process it for the command currentCmd.
InitPost ==
    \E name \in {INFO, LASTSAVE}, blob \in InfoBlobs :
        /\ conn = 1 /\ out = 1 /\ inp = 1
        /\ currentCmd = name
        /\ socks = <<NewSock>>
        /\ store = EmptyStore
        /\ pc = "post"
        /\ call = [op |-> "command", name |-> name,
                   cmd |-> formatMultiBulkCommand(name, <<>>),
                   args |-> <<>>, options |-> NoOptions]
        /\ res = NoResult
        /\ g = [NoHistory EXCEPT !.wrote = 1, !.io = 1, !.execs = 1,
                                 !.reply = blob,
                                 !.sent = <<formatMultiBulkCommand(name, <<>>)>>,
                                 !.carried = 1, !.conn0 = 1, !.nsock0 = 1]
        /\ sel = [db |-> -1, how |-> "none"]
        /\ lastSet = Absent
        /\ ncalls = 1
        /\ node = NoNode

\* return postProcessResults(handler(responseStream), cmd)
PostProcess ==
    /\ pc = "post"
    /\ LET returns(result) ==
               res' = IF result = VThrown THEN Raised ELSE Returned(result)
       IN returns(postProcessResults(VStr(g.reply), currentCmd))
    /\ pc' = "idle"
    /\ UNCHANGED <<conn, out, inp, currentCmd, socks, store, call, g, sel,
                   lastSet, ncalls, node>>

SpecPost == InitPost /\ [][PostProcess]_vars

\* ------------------------------------------------- command encoding alone
\* Arguments a sender is called with.
MaxArgs == 2

ArgValues ==
    {VStr(Key), VStr(Quid), VStr(TwoLines), VStr(<<>>), VInt(12), VInt(-3),
     VFloat(2, <<"5">>)}

\* A sender of a known command is called with any arguments on an open
\* connection and is about to format its command.
InitFormat ==
    \E name \in {SET, ZADD},
       args \in UNION {[1..n -> ArgValues] : n \in 0..MaxArgs} :
        /\ conn = 1 /\ out = 1 /\ inp = 1
        /\ currentCmd = name
        /\ socks = <<NewSock>>
        /\ store = EmptyStore
        /\ pc = "format"
        /\ call = [op |-> "command", name |-> name, cmd |-> <<>>,
                   args |-> args, options |-> NoOptions]
        /\ res = NoResult
        /\ g = [NoHistory EXCEPT !.conn0 = 1, !.nsock0 = 1]
        /\ sel = [db |-> -1, how |-> "none"]
        /\ lastSet = Absent
        /\ ncalls = 1
        /\ node = NoNode

\* cmd = formatMultiBulkCommand(commandName, commandArgs)
Format ==
    /\ pc = "format"
    /\ call' = [call EXCEPT !.cmd = formatMultiBulkCommand(call.name, call.args)]
    /\ pc' = "written"
    /\ UNCHANGED <<conn, out, inp, currentCmd, socks, store, res, g, sel,
                   lastSet, ncalls, node>>

SpecFormat == InitFormat /\ [][Format]_vars

\* ------------------------------------------------ recovery after failures
\* What earlier calls that failed have left: no connection (never opened, or
\* closed by fatal), or a connection in this._conn that the server has
\* closed or the network has reset, or one that is alive, with nothing or
\* with the tail of an earlier reply unread.  From here the server is up and
\* no connection is dropped any more.
InitRecover ==
    \E left \in {"never", "closed", "fin", "rst", "up"},
       unread \in {<<>>, <<"r", CR, LF>>} :
        /\ conn = IF left \in {"never", "closed"} THEN 0 ELSE 1
        /\ out = IF left = "never" THEN 0 ELSE 1
        /\ inp = out
        /\ currentCmd = <<>>
        /\ socks = CASE left = "never" -> <<>>
                     [] left = "closed" -> <<ClosedSock>>
                     [] OTHER -> <<[NewSock EXCEPT !.peer = left, !.inb = unread]>>
        /\ left \notin {"fin", "up"} => unread = <<>>
        /\ store \in {EmptyStore, [EmptyStore EXCEPT ![0][Key] = Holding(Bar)]}
        /\ pc = "idle"
        /\ call = NoCall
        /\ res = NoResult
        /\ g = NoHistory
        /\ sel = [db |-> -1, how |-> "none"]
        /\ lastSet = Absent
        /\ ncalls = 0
        /\ node = NoNode

SpecRecover == InitRecover /\ [][Command \/ ReadReply1 \/ ReadReply2]_vars

\* ------------------------------------------- the client for Node at work
\* Calls made at most, connections created at most, and chunks received at
\* most of a response that is not complete yet.
MaxIssued == 2

MaxConns == 4

MaxPieces == 2

NodeKeys == <<"a", "b", "c">>

\* The calls the id-th call is drawn from: redis.get(key, cb),
\* redis.mget(key, 'z', cb), redis.set(key, 'x', cb) and redis.ping().
NodeCalls(id) ==
    {[id |-> id, name |-> c[1], args |-> c[2], cb |-> c[3]] :
        c \in {<<GET, <<<<NodeKeys[id]>>>>, TRUE>>,
               <<MGET, <<<<NodeKeys[id]>>, <<"z">>>>, TRUE>>,
               <<SET, <<<<NodeKeys[id]>>, <<"x">>>>, TRUE>>,
               <<PING, <<>>, FALSE>>}}

\* The variables of the blocking client.
client ==
    <<conn, out, inp, currentCmd, socks, store, pc, call, res, g, sel, lastSet,
      ncalls>>

InitNode == Init /\ store = EmptyStore

NodeOpen == node.conn # 0 /\ node.conns[node.conn].readyState = "open"

\* redis.connect()
NodeConnect ==
    /\ node.conn = 0
    /\ node' = node_connect(node, NoDeferred)
    /\ UNCHANGED client

\* redis.<name>(args..., callback)
NodeCommand ==
    /\ node.conn # 0 /\ ~node.thrown
    /\ node.issued < MaxIssued
    /\ NodeOpen \/ Len(node.conns) < MaxConns
    /\ \E c \in NodeCalls(node.issued + 1), cancel \in BOOLEAN :
           node' = node_createCommandSender([node EXCEPT !.issued = @ + 1], c, cancel)
    /\ UNCHANGED client

\* redis.sort(key, callback) and redis.sort(key, {}, callback); sort throws
\* when the connection is not open.
NodeSort ==
    /\ NodeOpen /\ ~node.thrown
    /\ node.issued < MaxIssued
    /\ \E options \in {NoOptions, EmptyOptions} :
           node' = node_sort([node EXCEPT !.issued = @ + 1],
                             [id |-> node.issued + 1, name |-> SORT,
                              args |-> <<<<NodeKeys[node.issued + 1]>>>>, cb |-> TRUE],
                             options)
    /\ UNCHANGED client

\* The connect event of a connection: the listener _connect has added calls
\* the deferred command again.
NodeOnConnect ==
    /\ ~node.thrown
    /\ \E i \in 1..Len(node.conns), cancel \in BOOLEAN :
          LET opened == [node EXCEPT !.conns[i].readyState =
                                         IF @ = "opening" THEN "open" ELSE "closed",
                                     !.conns[i].cb = NoDeferred]
              cb == node.conns[i].cb
          IN /\ node.conns[i].readyState \in {"opening", "closing"}
             /\ \/ cb.id = 0
                \/ opened.conns[opened.conn].readyState = "open"
                \/ Len(node.conns) < MaxConns
             /\ node' = IF cb.id = 0 THEN opened
                        ELSE node_createCommandSender(opened, cb, cancel)
    /\ UNCHANGED client

\* A receive event of the open connection, with any number of the bytes on
\* their way.
NodeReceive ==
    /\ NodeOpen /\ ~node.thrown
    /\ \E k \in 1..Len(node.conns[node.conn].inb) :
           node' = node_processChunk(
                       [node EXCEPT !.conns[node.conn].inb = Drop(@, k)],
                       Take(node.conns[node.conn].inb, k))
    /\ Len(node'.chunks) <= MaxPieces
    /\ UNCHANGED client

\* The open connection is lost, with the bytes on their way.
NodeReset ==
    /\ NodeOpen /\ ~node.thrown
    /\ node' = [node EXCEPT !.conns[node.conn].readyState = "closed",
                            !.conns[node.conn].inb = <<>>,
                            !.conns[node.conn].qb = <<>>]
    /\ UNCHANGED client

\* A receive event with all the bytes on their way.
NodeReceiveWhole ==
    /\ NodeOpen /\ ~node.thrown
    /\ node.conns[node.conn].inb # <<>>
    /\ node' = node_processChunk([node EXCEPT !.conns[node.conn].inb = <<>>],
                                 node.conns[node.conn].inb)
    /\ UNCHANGED client

NextNode ==
    \/ NodeConnect
    \/ NodeCommand
    \/ NodeSort
    \/ NodeOnConnect
    \/ NodeReceive
    \/ NodeReset

SpecNode == InitNode /\ [][NextNode]_vars

\* The client for Node when no receive event cuts a reply.
SpecNodeTidy ==
    InitNode /\ [][\/ NodeConnect \/ NodeCommand \/ NodeSort \/ NodeOnConnect
                   \/ NodeReceiveWhole \/ NodeReset]_vars

\* ------------------------------------------------------------------ claims
\* The calls that send a command.
Sending == {"command", "select", "sort"}

\* The call is over and nothing but the connection's own state stood in its
\* way: no connection attempt was refused and no connection was dropped
\* while the call was in progress.
Undisturbed == pc = "idle" /\ ~g.refused /\ ~g.envfail

\* What a reply decodes to when all of it is read.
Decoded(reply, cmd) ==
    LET handled(h) == IF h.st = "ok" THEN postProcessResults(h.v, cmd) ELSE VUndef
    IN IF reply = <<>> \/ Head(reply) \notin TypePrefixes THEN VUndef
       ELSE handled(Handler(Head(reply), Tail(reply), TRUE, Len(reply)))

\* C1: a generic command on an open connection whose first write the
\* transport fails, the reconnect not being refused, writes the command a
\* second time after one reconnect and returns a value instead of raising.
C1_FirstWriteFailureRetried ==
    (call.op = "command" /\ g.conn0 # 0 /\ g.w1fail /\ Undisturbed)
        => (res.kind = "value" /\ g.wrote = 2 /\ g.recon = 1)

\* The case of C1: the first write of a generic command failed.
C1_Case == call.op = "command" /\ g.conn0 # 0 /\ g.w1fail /\ Undisturbed

\* C2: no call writes its command more than twice or goes through the
\* recovery cycle's reconnect more than once (so that a call opens one socket
\* at most beyond the one it opens when it finds no connection), and a call
\* whose second attempt fails is over and has raised.
C2_AtMostTwoAttempts ==
    /\ g.wrote <= 2
    /\ g.recon <= 1
    /\ call.op \in Sending
           => Len(socks) - g.nsock0 <= g.recon + (IF g.conn0 = 0 THEN 1 ELSE 0)
    /\ g.fail2 => (pc = "idle" /\ res.kind = "raise" /\ g.wrote = 2 /\ g.recon = 1)

\* The case of C2: a second attempt that failed.
C2_SecondFailure ==
    /\ call.op \in Sending /\ pc = "idle"
    /\ g.fail2 /\ g.wrote = 2 /\ g.recon = 1 /\ res.kind = "raise"

\* C3: a call whose first attempt reads an error reply raises it, having
\* written the command once and not reconnected, and leaves the connection
\* it used open.
C3_ErrorReplyNotRetried ==
    (g.sawErr /\ g.errAt = 1)
        => /\ pc = "idle" /\ res.kind = "raise"
           /\ g.wrote = 1 /\ g.recon = 0
           /\ conn = g.carried /\ conn # 0 /\ ~socks[conn].closed

\* C4: a call that reads a reply with an invalid type prefix raises at once,
\* with the connection closed and the command not written again.
C4_MalformedReplyNotRetried ==
    g.sawBad
        => /\ pc = "idle" /\ res.kind = "raise"
           /\ g.wrote = g.badAt /\ conn = 0

\* C5: a call returns a value only if it read no error reply and no
\* malformed reply.
C5_ErrorsSurface ==
    (pc = "idle" /\ res.kind = "value" /\ call.op \in Sending)
        => (~g.sawErr /\ ~g.sawBad)

\* C6: after a select(n) that returned true, and until the caller's next
\* select, connect or quit, what the server executes for the caller's
\* commands it executes against database n.
C6_SelectedDatabaseUsed ==
    (sel.how = "true" /\ call.op \in {"command", "sort"} /\ g.execs > 0)
        => g.execDb = sel.db

\* C7: a generic command begun on a connection that the server closed while
\* it was idle reconnects once, writes the command again and returns a value.
C7_IdleCloseSurvived ==
    (call.op = "command" /\ g.stale /\ Undisturbed)
        => (res.kind = "value" /\ g.recon = 1 /\ g.wrote = 2)

\* C8: a call that returns a value returns what the server's reply to its
\* last write decodes to, and leaves nothing of it unread.
C8_OneReplyPerCommand ==
    (pc = "idle" /\ res.kind = "value" /\ call.op \in Sending)
        => /\ conn # 0 /\ inp = conn
           /\ socks[conn].inb = <<>>
           /\ res.v = Decoded(g.reply, currentCmd)

C10_ExecutedOnce ==
    (pc = "idle" /\ res.kind = "value" /\ call.op = "command")
        => g.execs = 1

\* C11: quit() on an open connection returns with the socket closed and the
\* connection handle null, whether or not the transport took the QUIT; and
\* connect() on an open connection, which quits it first, does not raise
\* unless the new connection is refused.
C11_QuitBestEffort ==
    /\ (call.op = "quit" /\ g.conn0 # 0)
           => (res.kind = "value" /\ conn = 0 /\ socks[g.conn0].closed)
    /\ (call.op = "connect" /\ g.conn0 # 0 /\ ~g.refused)
           => (res.kind = "value" /\ conn # 0 /\ socks[g.conn0].closed)

\* C12: quit() with no connection open raises, having written nothing and
\* opened nothing, and leaves the handle null; every quit() leaves the
\* handle null, so that a quit() right after a quit() finds no connection.
C12_QuitWithoutConnection ==
    /\ (call.op = "quit" /\ g.conn0 = 0)
           => (res.kind = "raise" /\ g.io = 0 /\ Len(socks) = g.nsock0)
    /\ call.op = "quit" => (conn = 0 /\ pc = "idle")

\* The case of C12: a quit() after the connection was closed.
C12_QuitAgain ==
    call.op = "quit" /\ g.conn0 = 0 /\ g.nsock0 > 0 /\ res.kind = "raise"

\* The sockets the client has opened and not closed.
OpenSockets == {i \in 1..Len(socks) : ~socks[i].closed}

\* C13: at any time the client holds at most one socket that it has opened
\* and not closed, the one of its connection handle; and connect() has
\* closed the connection it found before it opens the new one.
C13_AtMostOneSocket ==
    /\ Cardinality(OpenSockets) <= 1
    /\ OpenSockets \subseteq {conn}
    /\ (call.op = "connect" /\ g.conn0 # 0) => socks[g.conn0].closed

\* The case of C13: a connect() on an open connection has replaced it.
C13_Reopened ==
    /\ call.op = "connect" /\ g.conn0 # 0 /\ res.kind = "value"
    /\ conn # g.conn0 /\ OpenSockets = {conn}

\* C14: a command (a generic command, a sort, a select of a valid database)
\* called while the connection handle is null opens a socket, unless the
\* server refuses it, and is written to a socket the call has opened.
C14_OpensWhenClosed ==
    (/\ call.op \in Sending /\ g.conn0 = 0 /\ ~g.refused
     /\ call.op = "select" => ParseInt(VStr(call.name)).t = "int")
        => /\ Len(socks) > g.nsock0
           /\ g.wrote >= 1
           /\ out > g.nsock0 /\ inp = out

\* The case of C14: a generic command after the connection was closed has
\* returned a value.
C14_AfterQuit ==
    /\ call.op = "command" /\ g.conn0 = 0 /\ g.nsock0 > 0
    /\ pc = "idle" /\ res.kind = "value" /\ g.recon = 0

\* C15: every call that has been made ends, with a value or an error.
C15_CallsTerminate == (pc # "idle") ~> (pc = "idle")

\* C16: a get(k) that follows a set(k, v) that returned true returns, when
\* it returns, exactly v.
C16_RoundTrip ==
    (/\ call.op = "command" /\ call.name = GET
     /\ pc = "idle" /\ res.kind = "value" /\ lastSet.has)
        => res.v = VStr(lastSet.v)

\* What the stream of the connection holds.
Stream == socks[inp].inb

\* A step in which a processResponse of the call returns or throws.
ReadStep == pc # "idle" /\ pc' # pc

\* The commands whose decoded reply postProcessResults leaves alone by its
\* default branch.
PlainNames == commands \ (Flags \cup {INFO, LASTSAVE})

\* C17: a reply that starts with "$-1" CR LF is returned as null, and of the
\* stream exactly these five bytes are consumed, whatever follows them.
C17_NilBulk ==
    [][(ReadStep /\ Take(Stream, 5) = NilBulk /\ currentCmd \in PlainNames)
          => /\ pc' = "idle" /\ res' = Returned(VNull)
             /\ inp' = inp /\ socks'[inp].inb = Drop(Stream, 5)]_vars

\* The case of C17: a nil bulk reply was decoded with bytes after it.
C17_NilThenMore ==
    /\ pc = "idle" /\ res = Returned(VNull) /\ g.recon = 0
    /\ Take(g.reply, 5) = NilBulk /\ Len(g.reply) > 5
    /\ Stream = Drop(g.reply, 5)

\* C18: a reply that starts with "*-1" CR LF is returned as null, and one
\* that starts with "*0" CR LF as the empty array, which is another value.
C18_NilMultiBulk ==
    [][(ReadStep /\ currentCmd \in PlainNames)
          => /\ Take(Stream, 5) = NilMultiBulk
                    => (pc' = "idle" /\ res' = Returned(VNull))
             /\ Take(Stream, 4) = EmptyMultiBulk
                    => (pc' = "idle" /\ res' = Returned(VArr(<<>>)))]_vars

\* What the handler of the reply at the head of the stream decodes, when one
\* read(buf) delivers at most chunk bytes.
HeadReply(chunk) ==
    Handler(Head(Stream), Tail(Stream), socks[inp].peer # "up", chunk)

\* The truth value of an integer reply.
AsFlag(raw) == IF raw.n = 0 THEN VFalse ELSE VTrue

\* C19 as stated: a read that decodes a reply returns false for the integer 0
\* and true for any other integer when the command is setnx, sadd, sismember,
\* zadd or zrem, and returns the decoded reply itself for every other
\* command.
C19_FlagsElseUnchanged ==
    [][(ReadStep /\ Stream # <<>> /\ Head(Stream) \in TypePrefixes)
          => \E chunk \in Chunks :
                LET returns(h) ==
                        h.st = "ok"
                            => /\ pc' = "idle"
                               /\ res'.kind = "value"
                               /\ IF currentCmd \in Flags
                                  THEN h.v.t = "int" => res'.v = AsFlag(h.v)
                                  ELSE res'.v = h.v
                IN returns(HeadReply(chunk))]_vars

\* C19, amended: the same, where the commands whose decoded reply is returned
\* unchanged are those other than the five, info and lastsave.
C19_FlagsElsePlainUnchanged ==
    [][(ReadStep /\ Stream # <<>> /\ Head(Stream) \in TypePrefixes)
          => \E chunk \in Chunks :
                LET returns(h) ==
                        (h.st = "ok" /\ currentCmd \in Flags \cup PlainNames)
                            => /\ pc' = "idle"
                               /\ res'.kind = "value"
                               /\ IF currentCmd \in Flags
                                  THEN h.v.t = "int" => res'.v = AsFlag(h.v)
                                  ELSE res'.v = h.v
                IN returns(HeadReply(chunk))]_vars

\* sadd has returned true for the integer reply 7.
C19_NonzeroIsTrue ==
    /\ pc = "idle" /\ currentCmd = SADD /\ g.recon = 0
    /\ Take(g.reply, 4) = IntegerOf(7)
    /\ res = Returned(VTrue)

\* The line of the reply at the head of the stream: the text between the
\* type prefix and the first CR LF.
HeadLine == SubSeq(Stream, 2, FindCRLF(Tail(Stream), 2) - 1)

\* C20: a read of a status reply whose line has arrived returns true when the
\* line is "OK" and the line itself, as a string, when it is anything else,
\* the empty line included.
C20_StatusLine ==
    [][(/\ ReadStep /\ currentCmd \in PlainNames
        /\ Stream # <<>> /\ Head(Stream) = "+"
        /\ FindCRLF(Tail(Stream), 2) > 0)
          => /\ pc' = "idle"
             /\ res' = Returned(IF HeadLine = OK THEN VTrue ELSE VStr(HeadLine))]_vars


\* The place of the first colon of a line at or after n, or 0.
RECURSIVE FirstColon(_, _)
FirstColon(line, n) ==
    IF n > Len(line) THEN 0
    ELSE IF line[n] = ":" THEN n
    ELSE FirstColon(line, n + 1)

\* A value of an info line: an integer when it is all digits, a number when
\* it is digits, a point and digits, and the text itself otherwise.
InfoValue(text) ==
    LET decimal(whole, frac) ==
            IF frac = <<>> \/ SkipDigits(frac) # <<>> THEN VStr(text)
            ELSE IF DropTrailingZeros(frac) = <<>> THEN VInt(DigitRun(whole, 0))
            ELSE VFloat(DigitRun(whole, 0), DropTrailingZeros(frac))
        digits(after) ==
            IF Len(after) = Len(text) THEN VStr(text)
            ELSE IF after = <<>> THEN VInt(DigitRun(text, 0))
            ELSE IF Head(after) # "." THEN VStr(text)
            ELSE decimal(SubSeq(text, 1, Len(text) - Len(after)), Tail(after))
    IN digits(SkipDigits(text))

\* The mapping with an entry for every line that has a colon: the key is
\* the text before the first colon, the value what follows it.
RECURSIVE InfoMapping(_, _)
InfoMapping(lines, props) ==
    IF lines = <<>> THEN VObj(props)
    ELSE LET entry(line, at) ==
                 IF at = 0 THEN props
                 ELSE PutProperty(props, SubSeq(line, 1, at - 1),
                                  InfoValue(SubSeq(line, at + 1, Len(line))))
         IN InfoMapping(Tail(lines), entry(Head(lines), FirstColon(Head(lines), 1)))

\* C21: post-processing the text of an info reply returns the mapping that
\* has an entry key -> value for every line key:value of the text, the value
\* a number when it looks like one and text otherwise.
C21_InfoMapping ==
    (pc = "idle" /\ res.kind # "none" /\ currentCmd = INFO /\ g.reply \in InfoBlobs)
        => res = Returned(InfoMapping(SplitLines(g.reply, <<>>, <<>>), <<>>))


\* C22: a sort whose options record has no ascending property writes the
\* command that the same record with ascending: true writes.
C22_AscendingDefault ==
    (/\ call.op = "sort" /\ g.wrote >= 1
     /\ call.options.given /\ call.options.ascending = "absent")
        => call.cmd = SortCmd(Key, [call.options EXCEPT !.ascending = "true"])


\* The bytes s are count bulk arguments, each "$", its length, CR LF, that
\* many bytes and CR LF, and nothing more.
RECURSIVE FrameArgs(_, _)
FrameArgs(s, count) ==
    IF count = 0 THEN s = <<>>
    ELSE /\ s # <<>> /\ Head(s) = "$"
         /\ LET payload(rest, len) ==
                    /\ Len(rest) >= len + 2
                    /\ SubSeq(rest, len + 1, len + 2) = CRLF
                    /\ FrameArgs(Drop(rest, len + 2), count - 1)
                length(line, rest) ==
                    /\ line # <<>> /\ SkipDigits(line) = <<>>
                    /\ payload(rest, DigitRun(line, 0))
                bulk(x, n) ==
                    n > 0 /\ length(SubSeq(x, 1, n - 2), Drop(x, n))
            IN bulk(Tail(s), FindCRLF(Tail(s), 2))

\* The bytes s are one complete multibulk frame: "*", a count of one or
\* more, CR LF, and that many bulk arguments.
IsFrame(s) ==
    /\ s # <<>> /\ Head(s) = "*"
    /\ LET count(line, rest) ==
               /\ line # <<>> /\ SkipDigits(line) = <<>>
               /\ DigitRun(line, 0) >= 1
               /\ FrameArgs(rest, DigitRun(line, 0))
           head(x, n) == n > 0 /\ count(SubSeq(x, 1, n - 2), Drop(x, n))
       IN head(Tail(s), FindCRLF(Tail(s), 2))

\* C23: every text a call has written to the socket, for a generic command,
\* select, sort or quit, is one complete multibulk frame.
C23_OnlyFrames ==
    \A i \in 1..Len(g.sent) : IsFrame(Utf8Bytes(g.sent[i]))


\* The bytes of one bulk argument: "$", the number of bytes, CR LF, the
\* bytes and CR LF.
BulkBytes(bytes) == <<"$">> \o NumToStr(Len(bytes)) \o CRLF \o bytes \o CRLF

RECURSIVE EachBulk(_)
EachBulk(args) ==
    IF args = <<>> THEN <<>>
    ELSE BulkBytes(Utf8Bytes(ArgText(Head(args)))) \o EachBulk(Tail(args))

\* C24: the bytes of a formatted command are "*", the number of arguments
\* plus one, CR LF, then the name and every argument in order as a bulk
\* argument whose declared length is the number of UTF-8 bytes of its text.
C24_EncodedByBytes ==
    pc = "written"
        => Utf8Bytes(call.cmd)
               = <<"*">> \o NumToStr(Len(call.args) + 1) \o CRLF
                 \o BulkBytes(Utf8Bytes(call.name)) \o EachBulk(call.args)

\* set('b£a', 12) is formatted with the lengths 4 and 2.
C24_PoundAndNumber ==
    /\ pc = "written" /\ call.name = SET /\ call.args = <<VStr(Quid), VInt(12)>>
    /\ Utf8Bytes(call.cmd)
           = <<"*", "3", CR, LF, "$", "3", CR, LF, "s", "e", "t", CR, LF,
               "$", "4", CR, LF, "b", ByteC2, ByteA3, "a", CR, LF,
               "$", "2", CR, LF, "1", "2", CR, LF>>


\* C25: a read of the retry that finds the stream at its end, or a first
\* byte that is no type prefix, raises to the caller and leaves the
\* connection closed and this._conn null, in the one case as in the other.
C25_BadPrefixFatal ==
    [][(/\ pc = "read2" /\ ReadStep /\ inp # 0 /\ ~socks[inp].closed
        /\ socks[inp].peer # "rst"
        /\ (Stream = <<>> \/ Head(Stream) \notin TypePrefixes))
          => /\ pc' = "idle" /\ res' = Raised
             /\ conn' = 0 /\ socks'[inp].closed]_vars


\* C26: a read of a status reply returns the text between the type prefix
\* and the first CR LF, the empty text included, and leaves in the stream
\* what follows that CR LF; when the stream ends with no CR LF in it, the
\* read returns no value.
C26_ReadLine ==
    [][(/\ ReadStep /\ currentCmd \in PlainNames
        /\ Stream # <<>> /\ Head(Stream) = "+")
          => IF FindCRLF(Tail(Stream), 2) > 0
             THEN /\ pc' = "idle"
                  /\ res' = Returned(IF HeadLine = OK THEN VTrue ELSE VStr(HeadLine))
                  /\ inp' = inp
                  /\ socks'[inp].inb = Drop(Stream, 1 + FindCRLF(Tail(Stream), 2))
             ELSE res'.kind # "value"]_vars


\* The declared length of the bulk reply at the head of the stream, and the
\* number of bytes of the whole reply: the prefix, the length line with its
\* CR LF, the payload and its CR LF.
BulkLength == ParseInt(VStr(HeadLine))

BulkSize == 1 + FindCRLF(Tail(Stream), 2) + BulkLength.n + 2

\* C27: a read of a bulk reply of declared length N >= 0, all of whose bytes
\* the stream holds, returns the text of the N payload bytes and leaves in
\* the stream what follows the reply, however few bytes one read(buf)
\* delivers and whatever bytes the payload is made of.
C27_WholePayload ==
    [][(/\ ReadStep /\ currentCmd \in PlainNames
        /\ Stream # <<>> /\ Head(Stream) = "$"
        /\ FindCRLF(Tail(Stream), 2) > 0
        /\ BulkLength.t = "int" /\ BulkLength.n >= 0
        /\ Len(Stream) >= BulkSize)
          => /\ pc' = "idle"
             /\ res' = Returned(VStr(Utf8Text(SubSeq(Stream, BulkSize - BulkLength.n - 1,
                                                     BulkSize - 2))))
             /\ inp' = inp
             /\ socks'[inp].inb = Drop(Stream, BulkSize)]_vars


\* The first count elements of the bytes s, each decoded by its own type
\* prefix: a bulk element to its text or to null, an integer element to its
\* number.  ok is FALSE when s does not hold count whole elements of these
\* kinds; rest is what follows them.
RECURSIVE Elements(_, _, _)
Elements(s, count, vals) ==
    IF count = 0 THEN [ok |-> TRUE, v |-> vals, rest |-> s]
    ELSE LET none == [ok |-> FALSE, v |-> <<>>, rest |-> s]
             bulk(n, len) ==
                 IF len.t # "int" \/ len.n < -1 THEN none
                 ELSE IF len.n = -1
                 THEN Elements(Drop(s, 1 + n), count - 1, Append(vals, VNull))
                 ELSE IF Len(s) < 1 + n + len.n + 2 THEN none
                 ELSE Elements(Drop(s, 1 + n + len.n + 2), count - 1,
                               Append(vals,
                                      VStr(Utf8Text(SubSeq(s, 2 + n, 1 + n + len.n)))))
             integer(n, num) ==
                 IF num.t # "int" THEN none
                 ELSE Elements(Drop(s, 1 + n), count - 1, Append(vals, num))
             element(n) ==
                 IF n = 0 THEN none
                 ELSE IF Head(s) = "$" THEN bulk(n, ParseInt(VStr(SubSeq(s, 2, n - 1))))
                 ELSE IF Head(s) = ":" THEN integer(n, ParseInt(VStr(SubSeq(s, 2, n - 1))))
                 ELSE none
         IN IF s = <<>> THEN none ELSE element(FindCRLF(Tail(s), 2))

\* The elements of the array reply at the head of the stream.
HeadElements ==
    Elements(Drop(Stream, 1 + FindCRLF(Tail(Stream), 2)),
             ParseInt(VStr(HeadLine)).n, <<>>)

\* C28: a read of an array reply of declared count N >= 0, all of whose
\* elements the stream holds, returns the array of its N elements in wire
\* order, each decoded by its own type prefix and a nil bulk kept as null,
\* and leaves in the stream what follows the reply.
C28_ElementsByPrefix ==
    [][(/\ ReadStep /\ currentCmd \in PlainNames
        /\ Stream # <<>> /\ Head(Stream) = "*"
        /\ FindCRLF(Tail(Stream), 2) > 0
        /\ ParseInt(VStr(HeadLine)).t = "int" /\ ParseInt(VStr(HeadLine)).n >= 0
        /\ HeadElements.ok)
          => /\ pc' = "idle"
             /\ res' = Returned(VArr(HeadElements.v))
             /\ inp' = inp
             /\ socks'[inp].inb = HeadElements.rest]_vars


\* C29: a command call that raises to its caller what the transport has
\* thrown (a failed write, read or connect, or end of stream) leaves no
\* socket open and this._conn null.
C29_TornDownOnFailure ==
    (call.op \in Sending /\ pc = "idle" /\ res = Raised /\ g.ioerr)
        => (conn = 0 /\ OpenSockets = {})


\* C30: a select whose first attempt failed and that has written its command
\* again after a reconnect returns (the reply of the second attempt) or
\* raises.
C30_SelectRetryReturns ==
    (call.op = "select" /\ pc = "read2") ~> (pc = "idle")


\* C31: a read of an error reply throws an Error whose message is the reply
\* line without its leading "ERR " when it has one, and the reply line
\* itself when it has none.
C31_ErrorMessage ==
    [][(/\ ReadStep /\ Stream # <<>> /\ Head(Stream) = "-"
        /\ FindCRLF(Tail(Stream), 2) > 0)
          => g'.msg = VStr(IF Take(HeadLine, 4) = ERR THEN Drop(HeadLine, 4)
                           ELSE HeadLine)]_vars


\* What a reply decodes to when one read(buf) delivers at most chunk bytes.
DecodedBy(reply, cmd, chunk) ==
    LET handled(h) == IF h.st = "ok" THEN postProcessResults(h.v, cmd) ELSE VUndef
    IN IF reply = <<>> \/ Head(reply) \notin TypePrefixes THEN VUndef
       ELSE handled(Handler(Head(reply), Tail(reply), TRUE, chunk))

\* C32: with the server reachable and no connection dropped, a generic
\* command that follows a generic command that failed does not fail: it
\* returns what the server's reply to it decodes to, the server having
\* executed it once, or raises the error reply the server answered with;
\* and no generic command waits for a reply that is not coming.
C32_NotWedged ==
    /\ (call.op = "command" /\ pc = "idle" /\ g.prev /\ ~g.refused)
          => \/ /\ res.kind = "value" /\ g.execs = 1
                /\ \E chunk \in Chunks : res.v = DecodedBy(g.reply, currentCmd, chunk)
             \/ res = Raised /\ g.sawErr /\ Head(g.reply) = "-"
    /\ (call.op = "command" /\ pc # "idle") => CanRead

\* A get on a dead connection has failed, and the get after it has returned
\* the value of the key.
C32_FailedThenRecovered ==
    /\ call.op = "command" /\ call.name = GET /\ pc = "idle"
    /\ g.prev /\ g.conn0 = 0 /\ g.nsock0 = 1
    /\ res = Returned(VStr(Bar))


\* C33: no operation, select included, writes to or reads from a stream of a
\* socket the client has closed with quit() or fatal().
C33_NoIoOnClosedSocket ==
    ~g.shut


\* The array reply of one element, the nil bulk.
OneNilElement == <<"*", "1", CR, LF>> \o NilBulk

\* C34: the nil array and the array of one nil element decode to different
\* values: a read that returns the decoding of "*-1" CR LF does not return
\* what "*1" CR LF "$-1" CR LF decodes to.
C34_ArraysDecodeApart ==
    [][(/\ ReadStep /\ currentCmd \in PlainNames
        /\ Take(Stream, 5) = NilMultiBulk /\ pc' = "idle" /\ res'.kind = "value")
          => res'.v # DecodedBy(OneNilElement, currentCmd, MaxChunk)]_vars


\* What a reply decodes to when it is there whole.
NodeValue(reply) ==
    node_postProcessResults(<<>>, node_replyHandler(Head(reply), reply, VInt(0)).v)

\* The replies of the server.
NodeReplies ==
    {NodeReply(formatInline(GET, <<<<NodeKeys[i]>>>>)) : i \in 1..MaxIssued}
    \cup {NodeReply(formatInline(MGET, <<<<NodeKeys[i]>>, <<"z">>>>)) : i \in 1..MaxIssued}
    \cup {NodeReply(formatInline(PING, <<>>)), StatusOK, EmptyMultiBulk, NodeErr}

\* C35: a callback is called with what the reply to its own command decodes
\* to: the replies are matched to the callbacks in the order of the commands
\* sent, across receive events, lost connections and reconnects.
C35_OwnReply ==
    \A i \in 1..Len(node.handed) :
        \E j \in 1..Len(node.sent) :
            /\ node.sent[j].id = node.handed[i].cb
            /\ NodeReply(node.sent[j].text) # <<>>
            /\ node.handed[i].result = NodeValue(NodeReply(node.sent[j].text))

\* C36: a command called while the connection was not open has been sent,
\* once, when the connection _connect created for it is no longer opening.
C36_DeferredSentOnce ==
    [][\A i \in 1..Len(node.conns) :
          (/\ node.conns[i].cb.id # 0
           /\ node.conns[i].readyState \in {"opening", "closing"}
           /\ node'.conns[i].readyState \notin {"opening", "closing"})
             => Cardinality({j \in 1..Len(node'.sent) :
                                node'.sent[j].id = node.conns[i].cb.id}) = 1]_vars

\* C37: what a callback is called with is what a whole reply of the server
\* decodes to, however the receive events cut the replies.
C37_WholeReplies ==
    \A i \in 1..Len(node.handed) :
        \E reply \in NodeReplies : node.handed[i].result = NodeValue(reply)

\* C38: the function exported under a name of inlineCommands sends the
\* inline command of that name, and the one exported under a name of
\* bulkCommands the bulk command of that name.
C38_SendsOwnName ==
    \A j \in 1..Len(node.sent) :
        /\ node.sent[j].name \in inlineCommands
              => node.sent[j].text = formatInline(node.sent[j].name, node.sent[j].args)
        /\ node.sent[j].name \in bulkCommands
              => node.sent[j].text = formatBulk(node.sent[j].name, node.sent[j].args)

====
